---- MODULE Spec2Model ----
(***************************************************************************)
(* Query safety and access control layer of the Snowflake SPCS LangChain   *)
(* agent: rate limiter and token verification (app/auth/security.py),      *)
(* statement validator, rewriter and connector                             *)
(* (app/integrations/snowflake.py) and the request pipeline (app/main.py). *)
(*                                                                         *)
(* One module, several specifications over the same variables:             *)
(*   SpecRate   sequential calls of AuthManager.check_rate_limit           *)
(*   SpecRace   the same method run by concurrent threadpool workers       *)
(*   SpecToken  create_access_token, verify_token and get_current_user      *)
(*   SpecQuery  validate_query and add_safety_limits on bounded statements  *)
(*   SpecRewrite  the same two methods on statements with endings            *)
(*   SpecGate   one inbound request, from its dependencies to the connector  *)
(*   SpecShare  two inbound requests on the routes that call the connector   *)
(*   SpecConn   the calls of SnowflakeConnector, one after another           *)
(*   SpecDeny   validate_query on statements holding a denylist form         *)
(*   SpecChat   process_query and clear_conversation of LangChainAgent       *)
(***************************************************************************)
EXTENDS Integers, Sequences, FiniteSets, TLC

VARIABLES
    now,          \* time.time(), in whole ticks
    rate_limits,  \* AuthManager.rate_limits: identity -> list of timestamps
    admitted,     \* history: identity -> every timestamp a call returned True at
    rl_last,      \* history: the last finished check_rate_limit call
    denied,       \* SpecRecover: identity -> when a call last returned False
    pc,           \* SpecRace: each worker's position inside check_rate_limit
    cur,          \* SpecRace: each worker's local current_time
    tmp,          \* SpecRace: each worker's list built by the comprehension
    tip,          \* SpecRace: the client_ip each worker is checking
    calls,        \* SpecRace: calls started so far
    utcnow,       \* SpecToken: datetime.utcnow(), in ticks of 1/TicksPerSecond s
    bearer,       \* SpecToken: request -> the token it presents, and how it was made
    auth,         \* SpecToken: request -> what get_current_user answered, and when
    blocked_operations,  \* SnowflakeSecurityValidator.blocked_operations
    allowed_tables,      \* SnowflakeSecurityValidator.allowed_tables
    stmt,         \* SpecQuery: the parts the statement was put together from
    query,        \* SpecQuery: the statement text
    checked,      \* SpecQuery: what validate_query(query) returned
    limited,      \* SpecQuery: what add_safety_limits(query) returned
    rq,           \* SpecGate: request -> the inbound request and how far it got
    conn,         \* SpecGate: SnowflakeConnector._connection
    eq,           \* SpecGate: the execute_query call in flight, or the last one
    sess,         \* SpecConn: the session behind _connection, and the last call
    memory        \* SpecChat: LangChainAgent.memory, and the last call on the agent

rate_vars == <<now, rate_limits, admitted, rl_last, denied>>
race_vars == <<pc, cur, tmp, tip, calls>>
tok_vars == <<utcnow, bearer, auth>>
q_vars == <<blocked_operations, allowed_tables, stmt, query, checked, limited>>
gate_vars == <<rq, conn, eq, sess, memory>>
vars == <<rate_vars, race_vars, tok_vars, q_vars, gate_vars>>

----------------------------------------------------------------------------
(* Bounds of the model *)

\* config.auth.rate_limit_requests (RATE_LIMIT_REQUESTS), set small
rate_limit_requests == 2
\* config.auth.rate_limit_window (RATE_LIMIT_WINDOW), in ticks, set small
rate_limit_window == 3
\* the clock stops here
MaxTime == 5

\* SpecRace: calls of check_rate_limit started in one run
MaxCalls == 3

\* SpecToken: clock resolution, the last tick, and the configured
\* access_token_expire_minutes and the largest expires_delta, in ticks
TicksPerSecond == 2
MaxTicks == 4
AccessTokenExpire == 2
MaxDelta == 1

\* config.snowflake.max_query_rows (SNOWFLAKE_MAX_QUERY_ROWS), set small
max_rows == 3

Identities == {"ip-1", "ip-2"}
Workers == {"w1", "w2"}

----------------------------------------------------------------------------
(* Sequence helpers *)

\* how many entries of s lie in the trailing window (t - rate_limit_window, t]
InWindow(s, t) ==
    Cardinality({i \in DOMAIN s : s[i] > t - rate_limit_window /\ s[i] <= t})

----------------------------------------------------------------------------
(* AuthManager.check_rate_limit, security.py 69-87 *)

\* the comprehension with a window one tick shorter
C1_MutCleanOld(list, current_time) ==
    LET window_start == current_time - rate_limit_window
        Keep(ts) == ts > window_start + 1
    IN  SelectSeq(list, Keep)

\* the comprehension keeping the entry that is exactly one window old
C13_MutCleanOld(list, current_time) ==
    LET window_start == current_time - rate_limit_window
        Keep(ts) == ts >= window_start
    IN  SelectSeq(list, Keep)

\* no comprehension: nothing is ever dropped
C14_MutCleanOld(list, current_time) == list

\* lines 72-78: the entries newer than window_start
CleanOld(list, current_time) ==
    LET window_start == current_time - rate_limit_window
        Keep(ts) == ts > window_start
    IN  SelectSeq(list, Keep)

\* the limit test with > for >=
C12_MutLimitExceeded(list) == Len(list) > rate_limit_requests

\* line 81: the limit test on the cleaned list
LimitExceeded(list) == Len(list) >= rate_limit_requests

\* the method with one list for all identities
C15_MutCheckRateLimit(client_ip) ==
    LET current_time == now
        cleaned == CleanOld(rate_limits[client_ip], current_time)
    IN  IF LimitExceeded(cleaned)
        THEN /\ rate_limits' = [i \in Identities |-> cleaned]
             /\ admitted' = admitted
             /\ rl_last' = [ip |-> client_ip, at |-> current_time, ret |-> FALSE]
        ELSE /\ rate_limits' = [i \in Identities |-> Append(cleaned, current_time)]
             /\ admitted' =
                    [admitted EXCEPT ![client_ip] = Append(@, current_time)]
             /\ rl_last' = [ip |-> client_ip, at |-> current_time, ret |-> TRUE]

\* the whole method, as one sequential call
CheckRateLimit(client_ip) ==
    LET current_time == now
        cleaned == CleanOld(rate_limits[client_ip], current_time)
    IN  IF LimitExceeded(cleaned)
        THEN /\ rate_limits' = [rate_limits EXCEPT ![client_ip] = cleaned]
             /\ admitted' = admitted
             /\ rl_last' = [ip |-> client_ip, at |-> current_time, ret |-> FALSE]
        ELSE /\ rate_limits' =
                    [rate_limits EXCEPT ![client_ip] = Append(cleaned, current_time)]
             /\ admitted' =
                    [admitted EXCEPT ![client_ip] = Append(@, current_time)]
             /\ rl_last' = [ip |-> client_ip, at |-> current_time, ret |-> TRUE]

Tick ==
    /\ now < MaxTime
    /\ now' = now + 1

----------------------------------------------------------------------------
(* Tokens: AuthManager.create_access_token / verify_token and
   get_current_user, security.py 45-67 and 94-107. The JWT library is
   modelled by what the two calls use of it: encode signs the claims with a
   key and an algorithm and writes a datetime "exp" as whole seconds; decode
   checks the form, the algorithm, the signature, then "exp". *)

Requests == {"r1", "r2"}

\* config.auth.secret_key and config.auth.algorithm
secret_key == "default-secret-key-for-testing"
algorithm == "HS256"

\* a mapping with key k set to v
Update(f, k, v) == [x \in DOMAIN f \cup {k} |-> IF x = k THEN v ELSE f[x]]

\* a datetime, in ticks, as the whole seconds jwt.encode and jwt.decode use
Seconds(ticks) == ticks \div TicksPerSecond

\* lines 47-55
create_access_token(data, expires_delta) ==
    LET expire == IF expires_delta # 0
                  THEN utcnow + expires_delta
                  ELSE utcnow + AccessTokenExpire
        to_encode == Update(data, "exp", Seconds(expire))
    IN  [form |-> "jws", alg |-> algorithm, key |-> secret_key, payload |-> to_encode]

\* jwt.decode(token, key, algorithms=[alg]) at line 60: the payload, or the
\* library's error
C8_MutJwtDecode(token, key, alg) ==
    IF token.form # "jws" THEN [err |-> "JWTError", payload |-> << >>]
    ELSE IF token.alg # alg \/ token.key # key
         THEN [err |-> "JWTError", payload |-> << >>]
         ELSE [err |-> "none", payload |-> token.payload]

JwtDecode(token, key, alg) ==
    IF token.form # "jws" THEN [err |-> "JWTError", payload |-> << >>]
    ELSE IF token.alg # alg \/ token.key # key
         THEN [err |-> "JWTError", payload |-> << >>]
         ELSE IF "exp" \in DOMAIN token.payload
                 /\ token.payload["exp"] < Seconds(utcnow)
              THEN [err |-> "ExpiredSignatureError", payload |-> << >>]
              ELSE [err |-> "none", payload |-> token.payload]

\* the HTTPException of lines 63-67 and 101-105
Unauthorized ==
    [status_code |-> 401,
     detail |-> "Could not validate credentials",
     headers |-> "WWW-Authenticate: Bearer"]

\* lines 57-67: every JWTError, ExpiredSignatureError included, is one 401
C10_MutVerifyToken(token) ==
    LET d == JwtDecode(token, secret_key, algorithm)
    IN  IF d.err = "none" THEN [ok |-> TRUE, payload |-> d.payload, error |-> Unauthorized]
        ELSE [ok |-> FALSE, payload |-> << >>,
              error |-> IF d.err = "ExpiredSignatureError"
                        THEN [Unauthorized EXCEPT !.detail = "Token has expired"]
                        ELSE Unauthorized]

verify_token(token) ==
    LET d == JwtDecode(token, secret_key, algorithm)
    IN  IF d.err = "none" THEN [ok |-> TRUE, payload |-> d.payload, error |-> Unauthorized]
        ELSE [ok |-> FALSE, payload |-> << >>, error |-> Unauthorized]

\* lines 94-107
C9_MutGetCurrentUser(token) ==
    LET v == verify_token(token)
    IN  IF ~v.ok THEN v
        ELSE IF "sub" \notin DOMAIN v.payload
             THEN [ok |-> FALSE, payload |-> << >>,
                   error |-> [Unauthorized EXCEPT !.status_code = 403]]
             ELSE v

get_current_user(token) ==
    LET v == verify_token(token)
    IN  IF ~v.ok THEN v
        ELSE IF "sub" \notin DOMAIN v.payload
             THEN [ok |-> FALSE, payload |-> << >>, error |-> Unauthorized]
             ELSE v

\* claims handed to create_access_token
DataSet ==
    { << >>,
      [sub |-> "alice", role |-> "admin"],
      [sub |-> "alice", exp |-> 1] }

\* tokens not made by create_access_token: not a JWT at all, signed with
\* another key, or declaring another algorithm
ForgedTokens ==
    { [form |-> "garbage", alg |-> "", key |-> "", payload |-> << >>],
      [form |-> "jws", alg |-> algorithm, key |-> "attacker-key",
       payload |-> [sub |-> "alice", exp |-> MaxTicks]],
      [form |-> "jws", alg |-> "none", key |-> "",
       payload |-> [sub |-> "alice", exp |-> MaxTicks]] }

NoToken == [form |-> "garbage", alg |-> "", key |-> "", payload |-> << >>]
NoBearers == [r \in Requests |-> [made |-> "none", token |-> NoToken, data |-> << >>, expire |-> 0]]
NoAnswers ==
    [r \in Requests |->
        [at |-> 0, seen |-> FALSE,
         verified |-> [ok |-> FALSE, payload |-> << >>, error |-> Unauthorized],
         out |-> [ok |-> FALSE, payload |-> << >>, error |-> Unauthorized]]]

----------------------------------------------------------------------------
(* Text. A Python str is a sequence of one-character strings, so that
   upper(), strip(), "in", startswith and the regular expressions of
   snowflake.py work on characters, as they do in the code. *)

LowerChars ==
    <<"a","b","c","d","e","f","g","h","i","j","k","l","m","n","o","p","q","r",
      "s","t","u","v","w","x","y","z">>
UpperChars ==
    <<"A","B","C","D","E","F","G","H","I","J","K","L","M","N","O","P","Q","R",
      "S","T","U","V","W","X","Y","Z">>
Digits ==
    <<"0","1","2","3","4","5","6","7","8","9">>

\* str.upper() on one character
UpperChar(c) ==
    IF \E i \in DOMAIN LowerChars : LowerChars[i] = c
    THEN UpperChars[CHOOSE i \in DOMAIN LowerChars : LowerChars[i] = c]
    ELSE c

\* str.upper()
Upper(s) == [i \in DOMAIN s |-> UpperChar(s[i])]

\* \s of the re module, the characters str.strip() removes
IsSpace(c) == c \in {" ", "\t", "\n", "\r", "\f"}

\* \w of the re module
IsWord(c) ==
    \/ \E i \in DOMAIN LowerChars : LowerChars[i] = c \/ UpperChars[i] = c
    \/ \E i \in DOMAIN Digits : Digits[i] = c
    \/ c = "_"

\* s[i:] and s[i:j] with 1-based i and exclusive j
From(s, i) == SubSeq(s, i, Len(s))
Slice(s, i, j) == SubSeq(s, i, j - 1)

\* str.strip()
RECURSIVE LStrip(_)
LStrip(s) == IF s # << >> /\ IsSpace(Head(s)) THEN LStrip(Tail(s)) ELSE s
RECURSIVE RStrip(_)
RStrip(s) ==
    IF s # << >> /\ IsSpace(s[Len(s)]) THEN RStrip(SubSeq(s, 1, Len(s) - 1)) ELSE s
Strip(s) == RStrip(LStrip(s))

\* str.rstrip(';')
RECURSIVE RStripSemicolon(_)
RStripSemicolon(s) ==
    IF s # << >> /\ s[Len(s)] = ";"
    THEN RStripSemicolon(SubSeq(s, 1, Len(s) - 1))
    ELSE s

\* lit occurs in s at position i
MatchAt(s, i, lit) ==
    /\ i >= 1
    /\ i + Len(lit) - 1 <= Len(s)
    /\ SubSeq(s, i, i + Len(lit) - 1) = lit

\* lit in s
Contains(s, lit) == \E i \in 1..(Len(s) + 1) : MatchAt(s, i, lit)

\* s.startswith(lit)
StartsWith(s, lit) == MatchAt(s, 1, lit)

\* s.replace(c, '') for a one-character c
RemoveChar(s, c) == SelectSeq(s, LAMBDA x : x # c)

\* the first position at or after i whose character is not a space / not a
\* word character (Len(s) + 1 when the run reaches the end): where a greedy
\* \s+ or \w+ that starts at i stops
RECURSIVE SpaceEnd(_, _)
SpaceEnd(s, i) == IF i <= Len(s) /\ IsSpace(s[i]) THEN SpaceEnd(s, i + 1) ELSE i
RECURSIVE WordEnd(_, _)
WordEnd(s, i) == IF i <= Len(s) /\ IsWord(s[i]) THEN WordEnd(s, i + 1) ELSE i

\* str(n) for n >= 0
RECURSIVE Str(_)
Str(n) ==
    IF n < 10 THEN <<Digits[n + 1]>>
    ELSE Str(n \div 10) \o <<Digits[(n % 10) + 1]>>

----------------------------------------------------------------------------
(* SnowflakeSecurityValidator, snowflake.py 18-93 *)

\* line 34, 43, 60, 62: the messages validate_query returns
OperationMessage(operation) ==
    <<"O","p","e","r","a","t","i","o","n"," ","'">>
    \o operation \o
    <<"'"," ","i","s"," ","n","o","t"," ","a","l","l","o","w","e","d">>
TableMessage(table_clean) ==
    <<"A","c","c","e","s","s"," ","t","o"," ","t","a","b","l","e"," ","'">>
    \o table_clean \o
    <<"'"," ","i","s"," ","n","o","t"," ","a","l","l","o","w","e","d">>
PatternMessage(pattern) ==
    <<"Q","u","e","r","y"," ","c","o","n","t","a","i","n","s"," ","s","u","s",
      "p","i","c","i","o","u","s"," ","p","a","t","t","e","r","n",":"," ">>
    \o pattern
ValidMessage ==
    <<"Q","u","e","r","y"," ","i","s"," ","v","a","l","i","d">>

\* lines 32-34: the first configured operation whose upper() occurs in
\* query_upper, 0 when none does
C4_MutFirstBlocked(query_upper) ==
    LET hits == {k \in DOMAIN blocked_operations :
                    StartsWith(query_upper, Upper(blocked_operations[k]))}
    IN  IF hits = {} THEN 0 ELSE CHOOSE k \in hits : \A h \in hits : k <= h

FirstBlocked(query_upper) ==
    LET hits == {k \in DOMAIN blocked_operations :
                    Contains(query_upper, Upper(blocked_operations[k]))}
    IN  IF hits = {} THEN 0 ELSE CHOOSE k \in hits : \A h \in hits : k <= h

\* line 38-39: re.findall(r'FROM\s+(\w+\.\w+|\w+)', query_upper) from position
\* i on: the captured groups, in order
W_FROM == <<"F","R","O","M">>
\* a match of the pattern starts at i
FromAt(s, i) ==
    /\ MatchAt(s, i, W_FROM)
    /\ SpaceEnd(s, i + 4) > i + 4
    /\ WordEnd(s, SpaceEnd(s, i + 4)) > SpaceEnd(s, i + 4)
RECURSIVE FindTables(_, _)
FindTables(s, i) ==
    LET starts == {p \in i..Len(s) : FromAt(s, p)}
    IN  IF starts = {} THEN << >>
        ELSE LET p == CHOOSE x \in starts : \A y \in starts : x <= y
                 j == SpaceEnd(s, p + 4)
                 k == WordEnd(s, j)
                 l == WordEnd(s, k + 1)
             IN  IF k <= Len(s) /\ s[k] = "." /\ l > k + 1
                 THEN <<Slice(s, j, l)>> \o FindTables(s, l)
                 ELSE <<Slice(s, j, k)>> \o FindTables(s, k)

\* line 41
TableClean(table) == RemoveChar(RemoveChar(table, "\""), "'")

\* lines 40-43: the first extracted table that is not in allowed_tables, 0
\* when all are
FirstForeign(tables) ==
    LET allowed == {Upper(allowed_tables[a]) : a \in DOMAIN allowed_tables}
        bad == {k \in DOMAIN tables : Upper(TableClean(tables[k])) \notin allowed}
    IN  IF bad = {} THEN 0 ELSE CHOOSE k \in bad : \A h \in bad : k <= h

\* lines 46-56: the suspicious patterns, as text (for the message) ...
suspicious_patterns ==
    << <<"D","R","O","P","\\","s","+","T","A","B","L","E">>,
       <<"D","E","L","E","T","E","\\","s","+","F","R","O","M">>,
       <<"U","P","D","A","T","E","\\","s","+","\\","w","+","\\","s","+","S","E",
         "T">>,
       <<"I","N","S","E","R","T","\\","s","+","I","N","T","O">>,
       <<"C","R","E","A","T","E","\\","s","+","T","A","B","L","E">>,
       <<"A","L","T","E","R","\\","s","+","T","A","B","L","E">>,
       <<"T","R","U","N","C","A","T","E">>,
       <<";","\\","s","*","-","-">>,
       <<"/","\\","*",".","*","\\","*","/">> >>

\* ... and what re.search finds. The text is upper case already, so
\* re.IGNORECASE changes nothing. A\s+B:
W_DROP == <<"D","R","O","P">>
W_TABLE == <<"T","A","B","L","E">>
W_DELETE == <<"D","E","L","E","T","E">>
W_UPDATE == <<"U","P","D","A","T","E">>
W_SET == <<"S","E","T">>
W_INSERT == <<"I","N","S","E","R","T">>
W_INTO == <<"I","N","T","O">>
W_CREATE == <<"C","R","E","A","T","E">>
W_ALTER == <<"A","L","T","E","R">>
W_TRUNCATE == <<"T","R","U","N","C","A","T","E">>

SearchGap(s, a, b) ==
    \E i \in 1..Len(s) :
        /\ MatchAt(s, i, a)
        /\ SpaceEnd(s, i + Len(a)) > i + Len(a)
        /\ MatchAt(s, SpaceEnd(s, i + Len(a)), b)

\* UPDATE\s+\w+\s+SET
SearchUpdateSet(s) ==
    \E i \in 1..Len(s) :
        /\ MatchAt(s, i, W_UPDATE)
        /\ LET j == SpaceEnd(s, i + 6)
               k == WordEnd(s, j)
               l == SpaceEnd(s, k)
           IN  j > i + 6 /\ k > j /\ l > k /\ MatchAt(s, l, W_SET)

\* ;\s*--
SearchCommentAfterSemicolon(s) ==
    \E i \in 1..Len(s) :
        s[i] = ";" /\ MatchAt(s, SpaceEnd(s, i + 1), <<"-", "-">>)

\* /\*.*\*/ : "." does not match a newline
SearchBlockComment(s) ==
    \E i \in 1..Len(s) :
        /\ MatchAt(s, i, <<"/", "*">>)
        /\ \E j \in (i + 2)..Len(s) :
              /\ MatchAt(s, j, <<"*", "/">>)
              /\ \A m \in (i + 2)..(j - 1) : s[m] # "\n"

SearchPattern(k, s) ==
    CASE k = 1 -> SearchGap(s, W_DROP, W_TABLE)
      [] k = 2 -> SearchGap(s, W_DELETE, W_FROM)
      [] k = 3 -> SearchUpdateSet(s)
      [] k = 4 -> SearchGap(s, W_INSERT, W_INTO)
      [] k = 5 -> SearchGap(s, W_CREATE, W_TABLE)
      [] k = 6 -> SearchGap(s, W_ALTER, W_TABLE)
      [] k = 7 -> Contains(s, W_TRUNCATE)
      [] k = 8 -> SearchCommentAfterSemicolon(s)
      [] k = 9 -> SearchBlockComment(s)

\* lines 58-60: the first pattern found, 0 when none is
FirstSuspicious(s) ==
    LET hits == {k \in DOMAIN suspicious_patterns : SearchPattern(k, s)}
    IN  IF hits = {} THEN 0 ELSE CHOOSE k \in hits : \A h \in hits : k <= h

\* the denylist consulted before the allowlist
C23_MutValidateQuery(q) ==
    LET query_upper == Strip(Upper(q))
        op == FirstBlocked(query_upper)
        tables == FindTables(query_upper, 1)
        tb == IF allowed_tables # << >> THEN FirstForeign(tables) ELSE 0
        pt == FirstSuspicious(query_upper)
    IN  IF op # 0
        THEN [valid |-> FALSE, message |-> OperationMessage(blocked_operations[op])]
        ELSE IF pt # 0
        THEN [valid |-> FALSE, message |-> PatternMessage(suspicious_patterns[pt])]
        ELSE IF tb # 0
        THEN [valid |-> FALSE, message |-> TableMessage(TableClean(tables[tb]))]
        ELSE [valid |-> TRUE, message |-> ValidMessage]

\* lines 27-62
validate_query(q) ==
    LET query_upper == Strip(Upper(q))
        op == FirstBlocked(query_upper)
        tables == FindTables(query_upper, 1)
        tb == IF allowed_tables # << >> THEN FirstForeign(tables) ELSE 0
        pt == FirstSuspicious(query_upper)
    IN  IF op # 0
        THEN [valid |-> FALSE, message |-> OperationMessage(blocked_operations[op])]
        ELSE IF tb # 0
        THEN [valid |-> FALSE, message |-> TableMessage(TableClean(tables[tb]))]
        ELSE IF pt # 0
        THEN [valid |-> FALSE, message |-> PatternMessage(suspicious_patterns[pt])]
        ELSE [valid |-> TRUE, message |-> ValidMessage]

\* lines 69-79
W_LIMIT == <<"L","I","M","I","T">>
W_SELECT == <<"S","E","L","E","C","T">>
W_ORDER == <<"O","R","D","E","R">>
W_BY == <<"B","Y">>
\* nothing is skipped
C28_MutSkipConditions(query_upper) == FALSE

\* the list without its last entry
C18_MutSkipConditions(query_upper) ==
    \/ Contains(query_upper, <<"C","O","U","N","T","(">>)
    \/ Contains(query_upper, <<"S","U","M","(">>)
    \/ Contains(query_upper, <<"A","V","G","(">>)
    \/ Contains(query_upper, <<"M","I","N","(">>)
    \/ Contains(query_upper, <<"M","A","X","(">>)
    \/ Contains(query_upper,
                <<"I","N","F","O","R","M","A","T","I","O","N","_","S","C","H","E","M","A">>)
    \/ Contains(query_upper, <<"S","H","O","W"," ">>)
    \/ Contains(query_upper, <<"D","E","S","C","R","I","B","E"," ">>)

skip_conditions(query_upper) ==
    \/ Contains(query_upper, <<"C","O","U","N","T","(">>)
    \/ Contains(query_upper, <<"S","U","M","(">>)
    \/ Contains(query_upper, <<"A","V","G","(">>)
    \/ Contains(query_upper, <<"M","I","N","(">>)
    \/ Contains(query_upper, <<"M","A","X","(">>)
    \/ Contains(query_upper,
                <<"I","N","F","O","R","M","A","T","I","O","N","_","S","C","H","E","M","A">>)
    \/ Contains(query_upper, <<"S","H","O","W"," ">>)
    \/ Contains(query_upper, <<"D","E","S","C","R","I","B","E"," ">>)
    \/ Contains(query_upper, W_LIMIT)

\* f' LIMIT {self.max_rows}'
LimitClause == <<" ">> \o W_LIMIT \o <<" ">> \o Str(max_rows)

\* line 87-88: re.sub(r'(\s+ORDER\s+BY\s+)', ' LIMIT n \\1', query,
\* flags=re.IGNORECASE) from position i on. A match starts at a space, runs
\* over the spaces (greedy), ORDER, spaces, BY, spaces (greedy); every match
\* is replaced.
RECURSIVE SubOrderBy(_, _)
SubOrderBy(q, i) ==
    IF i > Len(q) THEN << >>
    ELSE LET u == Upper(q)
             a == SpaceEnd(u, i)
             b == SpaceEnd(u, a + 5)
             c == SpaceEnd(u, b + 2)
         IN  IF /\ a > i
                /\ MatchAt(u, a, W_ORDER) /\ b > a + 5
                /\ MatchAt(u, b, W_BY) /\ c > b + 2
             THEN LimitClause \o <<" ">> \o Slice(q, i, c) \o SubOrderBy(q, c)
             ELSE <<q[i]>> \o SubOrderBy(q, i + 1)

\* the method appending to query.strip().rstrip(';')
C19_MutAddSafetyLimits(q) ==
    LET query_upper == Strip(Upper(q))
    IN  IF StartsWith(query_upper, W_SELECT) /\ ~skip_conditions(query_upper)
        THEN IF Contains(query_upper, W_ORDER \o <<" ">> \o W_BY)
             THEN SubOrderBy(q, 1)
             ELSE RStripSemicolon(Strip(q)) \o LimitClause
        ELSE q

\* lines 64-93
add_safety_limits(q) ==
    LET query_upper == Strip(Upper(q))
    IN  IF StartsWith(query_upper, W_SELECT) /\ ~skip_conditions(query_upper)
        THEN IF Contains(query_upper, W_ORDER \o <<" ">> \o W_BY)
             THEN SubOrderBy(q, 1)
             ELSE RStripSemicolon(q) \o LimitClause
        ELSE q

----------------------------------------------------------------------------
(* Statements handed to the validator: <head> FROM <target> <tail>, every
   part drawn from a list. The parts keep what the statement was meant to
   be (its FROM target and the form it is written in) beside its text. *)

Heads ==
    << <<"S","E","L","E","C","T"," ","*">>,
       <<"s","e","l","e","c","t"," ","n","a","m","e">>,
       <<"S","E","L","E","C","T"," ","C","O","U","N","T","(","*",")">>,
       <<"S","e","l","e","c","t"," ","u","p","d","a","t","e","d","_","a","t">>,
       <<" "," ","S","e","L","e","C","t"," ","i","d">>,
       <<"d","R","o","P"," ","T","A","B","L","E"," ","t",";"," ","S","E","L","E",
         "C","T"," ","*">> >>
Froms ==
    << <<" ","F","R","O","M"," ">>,
       <<"\n","f","r","o","m","\t">> >>
TableNames ==
    << <<"c","u","s","t","o","m","e","r","s">>,
       <<"P","r","o","d","u","c","t","s">>,
       <<"s","e","c","r","e","t","s">> >>
Schema == <<"p","u","b","l","i","c">>
Tails ==
    << << >>,
       <<";">>,
       <<" ","O","R","D","E","R"," ","B","Y"," ","i","d">>,
       <<" ","L","I","M","I","T"," ","5">>,
       <<" ","W","H","E","R","E"," ","s"," ","="," ","'","D","e","l","e","t","e",
         "'">>,
       <<";"," ","-","-"," ","x">>,
       <<" ","/","*"," ","c"," ","*","/">>,
       <<" ","G","R","O","U","P"," ","B","Y"," ","n","a","m","e">> >>
TargetForms == {"bare", "schema", "quoted"}

\* the FROM target as the statement names it, without its quotes
TargetName(st) ==
    IF st.form = "schema" THEN Schema \o <<".">> \o TableNames[st.name]
    ELSE TableNames[st.name]

\* the FROM target as written
TargetText(st) ==
    IF st.form = "quoted" THEN <<"\"">> \o TableNames[st.name] \o <<"\"">>
    ELSE TargetName(st)

Render(st) ==
    Heads[st.head] \o Froms[st.from] \o TargetText(st) \o Tails[st.tail]

Statements ==
    [head : DOMAIN Heads, from : DOMAIN Froms, form : TargetForms,
     name : DOMAIN TableNames, tail : DOMAIN Tails]

\* config.snowflake.get_blocked_operations_list(), settings.py 25-40: the
\* default, and a list configured in other letter-casing
BlockedConfigs ==
    { << <<"D","R","O","P">>,
         <<"D","E","L","E","T","E">>,
         <<"U","P","D","A","T","E">>,
         <<"I","N","S","E","R","T">>,
         <<"C","R","E","A","T","E">>,
         <<"A","L","T","E","R">> >>,
      << <<"d","r","o","p">>,
         <<"D","e","l","e","t","e">> >> }

\* config.snowflake.get_allowed_tables_list(), settings.py 24-34: no
\* restriction (the default), and an allowlist
AllowedConfigs ==
    { << >>,
      << <<"C","u","s","t","o","m","e","r","s">>,
         <<"p","r","o","d","u","c","t","s">> >> }

(* Statements handed to the rewriter: <select><ending>, every part drawn
   from a list; the first three selects are blank statements and take no
   ending. *)

Selects ==
    << << >>,
       <<" ">>,
       <<"\n","\t"," ">>,
       <<"S","E","L","E","C","T"," ","*"," ","F","R","O","M"," ","c","u","s",
         "t","o","m","e","r","s">>,
       <<"s","e","l","e","c","t"," ","i","d"," ","f","r","o","m"," ","c","u",
         "s","t","o","m","e","r","s">>,
       <<" "," ","S","E","L","E","C","T"," ","i","d"," ","F","R","O","M"," ",
         "c","u","s","t","o","m","e","r","s">>,
       <<"S","E","L","E","C","T"," ","C","O","U","N","T","(","*",")"," ","F",
         "R","O","M"," ","c","u","s","t","o","m","e","r","s">>,
       <<"S","E","L","E","C","T"," ","S","U","M","(","i","d",")"," ","F","R",
         "O","M"," ","c","u","s","t","o","m","e","r","s">>,
       <<"S","E","L","E","C","T"," ","A","V","G","(","i","d",")"," ","F","R",
         "O","M"," ","c","u","s","t","o","m","e","r","s">>,
       <<"S","E","L","E","C","T"," ","M","I","N","(","i","d",")"," ","F","R",
         "O","M"," ","c","u","s","t","o","m","e","r","s">>,
       <<"S","E","L","E","C","T"," ","M","A","X","(","i","d",")"," ","F","R",
         "O","M"," ","c","u","s","t","o","m","e","r","s">>,
       <<"S","E","L","E","C","T"," ","*"," ","F","R","O","M"," ","I","N","F",
         "O","R","M","A","T","I","O","N","_","S","C","H","E","M","A",".","T",
         "A","B","L","E","S">>,
       <<"S","H","O","W"," ","T","A","B","L","E","S">>,
       <<"D","E","S","C","R","I","B","E"," ","T","A","B","L","E"," ","c","u",
         "s","t","o","m","e","r","s">>,
       <<"S","E","L","E","C","T"," ","R","A","N","K","(",")"," ","O","V","E",
         "R"," ","(","P","A","R","T","I","T","I","O","N"," ","B","Y"," ","n",
         "a","m","e"," ","O","R","D","E","R"," ","B","Y"," ","i","d",")"," ",
         "F","R","O","M"," ","c","u","s","t","o","m","e","r","s">>,
       <<"W","I","T","H"," ","c"," ","A","S"," ","(","S","E","L","E","C","T",
         " ","1",")"," ","S","E","L","E","C","T"," ","*"," ","F","R","O","M",
         " ","c">> >>
Endings ==
    << << >>,
       <<";">>,
       <<";"," ">>,
       <<";","\n">>,
       <<" ","O","R","D","E","R"," ","B","Y"," ","i","d">>,
       <<"\n","O","R","D","E","R"," ","B","Y"," ","i","d"," ","D","E","S","C",
         ";">>,
       <<" ","O","R","D","E","R"," "," ","B","Y"," ","i","d">>,
       <<" ","O","R","D","E","R"," ","B","Y","(","i","d",")">>,
       <<" ","L","I","M","I","T"," ","5">>,
       <<" ","l","i","m","i","t"," ","5",";">>,
       <<" ","W","H","E","R","E"," ","i","d"," ",">"," ","1"," ","O","R","D",
         "E","R"," ","B","Y"," ","i","d">>,
       <<";",";">> >>
BlankSelects == {1, 2, 3}
RenderRewrite(st) == Selects[st.select] \o Endings[st.ending]
RewriteStatements ==
    { st \in [select : DOMAIN Selects, ending : DOMAIN Endings] :
        st.select \in BlankSelects => st.ending = 1 }

(* Statements that hold a form of the denylist: <lead><form>. The forms
   are the nine of lines 47-55, written as a client would write them: a
   newline between the two words, a block comment over two lines, an
   UPDATE of a schema-qualified table. *)

DenyLeads ==
    << << >>,
       <<" "," ">>,
       <<"S","E","L","E","C","T"," ","i","d"," ","F","R","O","M"," ","c","u",
         "s","t","o","m","e","r","s"," ","W","H","E","R","E"," ","i","d"," ",
         "="," ","1",";"," ">> >>
DenyForms ==
    << <<"D","R","O","P"," ","T","A","B","L","E"," ","t">>,
       <<"d","r","o","p","\n"," ","t","a","b","l","e"," ","t">>,
       <<"D","E","L","E","T","E"," ","F","R","O","M"," ","c","u","s","t","o",
         "m","e","r","s">>,
       <<"U","P","D","A","T","E"," ","c","u","s","t","o","m","e","r","s"," ",
         "S","E","T"," ","i","d"," ","="," ","1">>,
       <<"I","N","S","E","R","T"," ","I","N","T","O"," ","c","u","s","t","o",
         "m","e","r","s"," ","V","A","L","U","E","S"," ","(","1",")">>,
       <<"C","R","E","A","T","E"," ","T","A","B","L","E"," ","t"," ","(","a",
         " ","i","n","t",")">>,
       <<"A","L","T","E","R"," ","T","A","B","L","E"," ","c","u","s","t","o",
         "m","e","r","s"," ","A","D","D"," ","c"," ","i","n","t">>,
       <<"T","R","U","N","C","A","T","E"," ","T","A","B","L","E"," ","c","u",
         "s","t","o","m","e","r","s">>,
       <<"S","E","L","E","C","T"," ","1",";"," ","-","-"," ","x">>,
       <<"S","E","L","E","C","T"," ","1"," ","/","*"," ","c"," ","*","/">>,
       <<"S","E","L","E","C","T"," ","1"," ","/","*"," ","a","\n","b"," ","*",
         "/">>,
       <<"U","P","D","A","T","E"," ","p","u","b","l","i","c",".","c","u","s",
         "t","o","m","e","r","s"," ","S","E","T"," ","i","d"," ","="," ","1">> >>
RenderDeny(st) == DenyLeads[st.lead] \o DenyForms[st.form]
DenyStatements == [lead : DOMAIN DenyLeads, form : DOMAIN DenyForms]

\* blocked operation lists: those of BlockedConfigs, and one that names
\* none of the denylist's verbs
DenyBlocked == BlockedConfigs \cup { << <<"G","R","A","N","T">> >> }

\* the validator and one statement, before any call
DefaultBlocked ==
    << <<"D","R","O","P">>,
       <<"D","E","L","E","T","E">>,
       <<"U","P","D","A","T","E">>,
       <<"I","N","S","E","R","T">>,
       <<"C","R","E","A","T","E">>,
       <<"A","L","T","E","R">> >>
FirstStatement == [head |-> 1, from |-> 1, form |-> "bare", name |-> 1, tail |-> 1]
NotChecked == [done |-> FALSE, valid |-> FALSE, message |-> << >>]
NotLimited == [done |-> FALSE, text |-> << >>]


----------------------------------------------------------------------------
(* The warehouse behind the connector, and the requests that reach it.
   snowflake.connector, its cursors and the engine are not part of the
   repository: a driver call either raises or answers, and an answer holds
   no more rows than the statement can produce. *)

\* rows in every table, and columns of every table
TableRows == 4
ColumnsPerTable == 2
\* tool calls one model reply can hold (langchain_agent.py 111-114)
MaxTools == 2
\* connections one connector establishes
MaxConnects == 3

\* the routes of main.py that reach the connector
Endpoints == {"query", "tables", "schema", "health"}

\* bearer tokens a request can carry: one the service issued, one it issued
\* without a subject, one it never issued
GateTokens ==
    { [form |-> "jws", alg |-> algorithm, key |-> secret_key,
       payload |-> [sub |-> "alice", exp |-> 1]],
      [form |-> "jws", alg |-> algorithm, key |-> secret_key,
       payload |-> [exp |-> 1]],
      [form |-> "garbage", alg |-> "", key |-> "", payload |-> << >>] }

\* requests the service is working on at one time
Inbound == {"q1"}

\* request.client.host of every request
ClientHost == "ip-1"

\* the statement of get_table_schema, snowflake.py 186-191
SchemaQuery ==
    <<"\n"," "," "," "," "," "," "," "," ","S","E","L","E","C","T"," ","C",
      "O","L","U","M","N","_","N","A","M","E",","," ","D","A","T","A","_",
      "T","Y","P","E",","," ","I","S","_","N","U","L","L","A","B","L","E",
      ","," ","C","O","L","U","M","N","_","D","E","F","A","U","L","T","\n",
      " "," "," "," "," "," "," "," ","F","R","O","M"," ","I","N","F","O",
      "R","M","A","T","I","O","N","_","S","C","H","E","M","A",".","C","O",
      "L","U","M","N","S","\n"," "," "," "," "," "," "," "," ","W","H","E",
      "R","E"," ","T","A","B","L","E","_","N","A","M","E"," ","="," ","%",
      "s"," ","A","N","D"," ","T","A","B","L","E","_","S","C","H","E","M",
      "A"," ","="," ","%","s","\n"," "," "," "," "," "," "," "," ","O","R",
      "D","E","R"," ","B","Y"," ","O","R","D","I","N","A","L","_","P","O",
      "S","I","T","I","O","N","\n"," "," "," "," "," "," "," "," ">>

\* statements a model reply can ask execute_snowflake_query to run: a
\* plain SELECT, one with ORDER BY, one with its own LIMIT, one on another
\* table, a COUNT with and without GROUP BY, and a DROP
GateStatements ==
    { st \in Statements :
        /\ st.from = 1
        /\ st.form = "bare"
        /\ <<st.head, st.name, st.tail>> \in
              { <<1, 1, 1>>, <<1, 1, 3>>, <<1, 1, 4>>, <<1, 3, 1>>,
                <<3, 1, 1>>, <<3, 1, 8>>, <<6, 1, 1>> } }

\* int(digits) read from position i on
RECURSIVE ParseNat(_, _, _)
ParseNat(s, i, acc) ==
    IF i <= Len(s) /\ \E k \in DOMAIN Digits : Digits[k] = s[i]
    THEN ParseNat(s, i + 1, acc * 10 + (CHOOSE k \in DOMAIN Digits : Digits[k] = s[i]) - 1)
    ELSE acc

\* the positions of a LIMIT <n> clause of the statement
LimitAt(text) ==
    { i \in 1..Len(text) :
        /\ MatchAt(Upper(text), i, W_LIMIT)
        /\ i > 1 /\ IsSpace(text[i - 1])
        /\ SpaceEnd(text, i + 5) > i + 5
        /\ SpaceEnd(text, i + 5) <= Len(text)
        /\ \E k \in DOMAIN Digits : Digits[k] = text[SpaceEnd(text, i + 5)] }

\* the most rows cursor.fetchall() can hold after the statement ran: one row
\* for an aggregate without GROUP BY, the columns of the table for the schema
\* statement, else the rows of the table; a LIMIT <n> clause caps it
EngineRows(text) ==
    LET u == Upper(text)
        base ==
            IF Contains(u, <<"I","N","F","O","R","M","A","T","I","O","N","_",
                             "S","C","H","E","M","A",".","C","O","L","U","M","N","S">>)
            THEN ColumnsPerTable
            ELSE IF /\ Contains(u, <<"C","O","U","N","T","(">>)
                    /\ ~Contains(u, <<"G","R","O","U","P"," ","B","Y">>)
            THEN 1
            ELSE TableRows
        at == LimitAt(text)
    IN  IF at = {} THEN base
        ELSE LET i == CHOOSE j \in at : \A k \in at : k <= j
                 n == ParseNat(text, SpaceEnd(text, i + 5), 0)
             IN  IF n < base THEN n ELSE base

\* ValueError(f"Query validation failed: {message}"), line 134
ValidationFailed(message) ==
    <<"Q","u","e","r","y"," ","v","a","l","i","d","a","t","i","o","n"," ",
      "f","a","i","l","e","d",":"," ">> \o message

NoOutcome == [kind |-> "none", message |-> << >>, row_count |-> 0]
NoExecute ==
    [pc |-> "idle", owner |-> "none", query |-> << >>, checked |-> NotChecked,
     limited |-> NotLimited, connection |-> "none", cursor |-> "none",
     sent |-> << >>, outcome |-> NoOutcome]
NoRequest ==
    [endpoint |-> "health", token |-> NoToken, stage |-> "none", order |-> << >>,
     tools |-> 0, status |-> 0,
     listing |-> [returned |-> "none", raised |-> FALSE]]
NoRequests == [r \in Inbound |-> NoRequest]

\* no connector call has been made; of a call: the handle it found and
\* its condition, whether the call got as far as get_connection, what
\* became of snowflake.connector.connect, the handle it worked on, whether
\* it raised, and the statements it executed, each with whether the
\* session had its STATEMENT_TIMEOUT_IN_SECONDS set by then
NoUse ==
    [op |-> "none", held |-> 0, found |-> "None", used |-> FALSE,
     connect |-> "no", handle |-> 0, raised |-> FALSE, sent |-> << >>]
\* _connection is None (line 102): no handle, no session
NoSession == [handle |-> 0, alive |-> FALSE, timed |-> FALSE, last |-> NoUse]

\* conversation ids the clients use, and messages the memory holds at most
Conversations == {"A", "B"}
MaxMessages == 10
\* no call has been made on the agent
NoAsk == [op |-> "none", conversation |-> "none", success |-> FALSE, touched |-> << >>]
\* the memory created in _initialize_agent (langchain_agent.py 45-50): one
\* ConversationBufferWindowMemory for the agent, empty
NoMemory == [messages |-> << >>, last |-> NoAsk]

----------------------------------------------------------------------------
(* SpecRate: one caller after another *)

NoCall == [ip |-> "none", at |-> 0, ret |-> FALSE]

\* no call has returned False yet
NeverDenied == [i \in Identities |-> -1]

\* the limiter after construction: no identity has a window yet
NoWindows == [i \in Identities |-> << >>]

\* no worker is inside check_rate_limit
AllIdle == [w \in Workers |-> "idle"]
NoTimes == [w \in Workers |-> 0]
NoLists == [w \in Workers |-> << >>]
NoIps == [w \in Workers |-> "ip-1"]

RateInit ==
    /\ now = 0
    /\ rate_limits = NoWindows
    /\ admitted = NoWindows
    /\ rl_last = NoCall
    /\ denied = NeverDenied
    /\ pc = AllIdle
    /\ cur = NoTimes
    /\ tmp = NoLists
    /\ tip = NoIps
    /\ calls = 0
    /\ utcnow = 0
    /\ bearer = NoBearers
    /\ auth = NoAnswers
    /\ blocked_operations = DefaultBlocked
    /\ allowed_tables = << >>
    /\ stmt = FirstStatement
    /\ query = Render(stmt)
    /\ checked = NotChecked
    /\ limited = NotLimited
    /\ rq = NoRequests
    /\ conn = "None"
    /\ eq = NoExecute
    /\ sess = NoSession
    /\ memory = NoMemory

RateTick == Tick /\ UNCHANGED <<denied, rate_limits, admitted, rl_last, race_vars, tok_vars, q_vars, gate_vars>>

RateCall ==
    \E ip \in Identities : CheckRateLimit(ip) /\ UNCHANGED <<denied, now, race_vars, tok_vars, q_vars, gate_vars>>

RateNext == RateTick \/ RateCall

SpecRate == RateInit /\ [][RateNext]_vars

----------------------------------------------------------------------------
(* SpecRecover: calls of one identity, one after another, with the time of
   its last rejected call kept beside the limiter *)

RecoverInit ==
    /\ now = 0
    /\ rate_limits = NoWindows
    /\ admitted = NoWindows
    /\ rl_last = NoCall
    /\ denied = NeverDenied
    /\ pc = AllIdle
    /\ cur = NoTimes
    /\ tmp = NoLists
    /\ tip = NoIps
    /\ calls = 0
    /\ utcnow = 0
    /\ bearer = NoBearers
    /\ auth = NoAnswers
    /\ blocked_operations = DefaultBlocked
    /\ allowed_tables = << >>
    /\ stmt = FirstStatement
    /\ query = Render(stmt)
    /\ checked = NotChecked
    /\ limited = NotLimited
    /\ rq = NoRequests
    /\ conn = "None"
    /\ eq = NoExecute
    /\ sess = NoSession
    /\ memory = NoMemory

RecoverTick == Tick /\ UNCHANGED <<denied, rate_limits, admitted, rl_last, race_vars, tok_vars, q_vars, gate_vars>>

RecoverCall ==
    /\ CheckRateLimit(ClientHost)
    /\ denied' = IF rl_last'.ret THEN denied ELSE [denied EXCEPT ![ClientHost] = now]
    /\ UNCHANGED <<now, race_vars, tok_vars, q_vars, gate_vars>>

RecoverNext == RecoverTick \/ RecoverCall

SpecRecover == RecoverInit /\ [][RecoverNext]_vars

----------------------------------------------------------------------------
(* SpecRace: check_rate_limit is a plain "def" dependency (security.py 110-120,
   main.py 169), which the framework runs on threadpool workers: the statements
   of two calls interleave, and the method takes no lock. One action per
   statement of the method. *)

\* line 71: current_time = time.time()
RaceStart(w) ==
    /\ pc[w] = "idle"
    /\ calls < MaxCalls
    /\ \E ip \in Identities : tip' = [tip EXCEPT ![w] = ip]
    /\ cur' = [cur EXCEPT ![w] = now]
    /\ calls' = calls + 1
    /\ pc' = [pc EXCEPT ![w] = "clean"]
    /\ UNCHANGED <<rate_vars, tmp, tok_vars, q_vars, gate_vars>>

\* lines 75-78, right-hand side: the comprehension builds a new list
RaceClean(w) ==
    /\ pc[w] = "clean"
    /\ tmp' = [tmp EXCEPT ![w] = CleanOld(rate_limits[tip[w]], cur[w])]
    /\ pc' = [pc EXCEPT ![w] = "store"]
    /\ UNCHANGED <<rate_vars, cur, tip, calls, tok_vars, q_vars, gate_vars>>

\* line 75: self.rate_limits[client_ip] = <the new list>
RaceStore(w) ==
    /\ pc[w] = "store"
    /\ rate_limits' = [rate_limits EXCEPT ![tip[w]] = tmp[w]]
    /\ pc' = [pc EXCEPT ![w] = "check"]
    /\ UNCHANGED <<denied, now, admitted, rl_last, cur, tmp, tip, calls, tok_vars, q_vars, gate_vars>>

\* lines 81-83: the limit test, on the list the map holds now
RaceCheck(w) ==
    /\ pc[w] = "check"
    /\ IF LimitExceeded(rate_limits[tip[w]])
       THEN /\ rl_last' = [ip |-> tip[w], at |-> cur[w], ret |-> FALSE]
            /\ pc' = [pc EXCEPT ![w] = "idle"]
       ELSE /\ rl_last' = rl_last
            /\ pc' = [pc EXCEPT ![w] = "append"]
    /\ UNCHANGED <<denied, now, rate_limits, admitted, cur, tmp, tip, calls, tok_vars, q_vars, gate_vars>>

\* lines 86-87: append to the list the map holds now, return True
RaceAppend(w) ==
    /\ pc[w] = "append"
    /\ rate_limits' = [rate_limits EXCEPT ![tip[w]] = Append(@, cur[w])]
    /\ admitted' = [admitted EXCEPT ![tip[w]] = Append(@, cur[w])]
    /\ rl_last' = [ip |-> tip[w], at |-> cur[w], ret |-> TRUE]
    /\ pc' = [pc EXCEPT ![w] = "idle"]
    /\ UNCHANGED <<denied, now, cur, tmp, tip, calls, tok_vars, q_vars, gate_vars>>

RaceTick == Tick /\ UNCHANGED <<denied, rate_limits, admitted, rl_last, race_vars, tok_vars, q_vars, gate_vars>>

RaceNext ==
    \/ RaceTick
    \/ \E w \in Workers : RaceStart(w)
    \/ \E w \in Workers : RaceClean(w)
    \/ \E w \in Workers : RaceStore(w)
    \/ \E w \in Workers : RaceCheck(w)
    \/ \E w \in Workers : RaceAppend(w)

RaceInit ==
    /\ now = 0
    /\ rate_limits = NoWindows
    /\ admitted = NoWindows
    /\ rl_last = NoCall
    /\ denied = NeverDenied
    /\ pc = AllIdle
    /\ cur = NoTimes
    /\ tmp = NoLists
    /\ tip = NoIps
    /\ calls = 0
    /\ utcnow = 0
    /\ bearer = NoBearers
    /\ auth = NoAnswers
    /\ blocked_operations = DefaultBlocked
    /\ allowed_tables = << >>
    /\ stmt = FirstStatement
    /\ query = Render(stmt)
    /\ checked = NotChecked
    /\ limited = NotLimited
    /\ rq = NoRequests
    /\ conn = "None"
    /\ eq = NoExecute
    /\ sess = NoSession
    /\ memory = NoMemory

SpecRace == RaceInit /\ [][RaceNext]_vars

----------------------------------------------------------------------------
(* SpecToken: tokens are issued, forged and presented while the clock runs *)

\* a caller obtains a token for some claims
Issue(r) ==
    /\ \E data \in DataSet : \E expires_delta \in 0..MaxDelta :
          bearer' = [bearer EXCEPT ![r] =
                        [made |-> "issued",
                         token |-> create_access_token(data, expires_delta),
                         data |-> data,
                         expire |-> IF expires_delta # 0 THEN utcnow + expires_delta
                                    ELSE utcnow + AccessTokenExpire]]
    /\ auth' = [auth EXCEPT ![r] = NoAnswers[r]]
    /\ UNCHANGED <<utcnow, rate_vars, race_vars, q_vars, gate_vars>>

\* a caller presents a token of its own making
Forge(r) ==
    /\ \E t \in ForgedTokens :
          bearer' = [bearer EXCEPT ![r] =
                        [made |-> "forged", token |-> t, data |-> << >>, expire |-> 0]]
    /\ auth' = [auth EXCEPT ![r] = NoAnswers[r]]
    /\ UNCHANGED <<utcnow, rate_vars, race_vars, q_vars, gate_vars>>

\* a request with the token reaches get_current_user
Authenticate(r) ==
    /\ bearer[r].made # "none"
    /\ auth' = [auth EXCEPT ![r] =
                    [at |-> utcnow, seen |-> TRUE,
                     verified |-> verify_token(bearer[r].token),
                     out |-> get_current_user(bearer[r].token)]]
    /\ UNCHANGED <<utcnow, bearer, rate_vars, race_vars, q_vars, gate_vars>>

TokTick ==
    /\ utcnow < MaxTicks
    /\ utcnow' = utcnow + 1
    /\ UNCHANGED <<bearer, auth, rate_vars, race_vars, q_vars, gate_vars>>

TokInit ==
    /\ now = 0
    /\ rate_limits = NoWindows
    /\ admitted = NoWindows
    /\ rl_last = NoCall
    /\ denied = NeverDenied
    /\ pc = AllIdle
    /\ cur = NoTimes
    /\ tmp = NoLists
    /\ tip = NoIps
    /\ calls = 0
    /\ utcnow = 0
    /\ bearer = NoBearers
    /\ auth = NoAnswers
    /\ blocked_operations = DefaultBlocked
    /\ allowed_tables = << >>
    /\ stmt = FirstStatement
    /\ query = Render(stmt)
    /\ checked = NotChecked
    /\ limited = NotLimited
    /\ rq = NoRequests
    /\ conn = "None"
    /\ eq = NoExecute
    /\ sess = NoSession
    /\ memory = NoMemory

TokNext ==
    \/ TokTick
    \/ \E r \in Requests : Issue(r)
    \/ \E r \in Requests : Forge(r)
    \/ \E r \in Requests : Authenticate(r)

SpecToken == TokInit /\ [][TokNext]_vars

----------------------------------------------------------------------------
(* SpecQuery: validate_query and add_safety_limits applied to every statement
   under every configured policy *)

ValidateQuery ==
    /\ ~checked.done
    /\ checked' = [done |-> TRUE] @@ validate_query(query)
    /\ UNCHANGED <<blocked_operations, allowed_tables, stmt, query, limited>>
    /\ UNCHANGED <<rate_vars, race_vars, tok_vars, gate_vars>>

AddSafetyLimits ==
    /\ ~limited.done
    /\ limited' = [done |-> TRUE, text |-> add_safety_limits(query)]
    /\ UNCHANGED <<blocked_operations, allowed_tables, stmt, query, checked>>
    /\ UNCHANGED <<rate_vars, race_vars, tok_vars, gate_vars>>

QueryInit ==
    /\ now = 0
    /\ rate_limits = NoWindows
    /\ admitted = NoWindows
    /\ rl_last = NoCall
    /\ denied = NeverDenied
    /\ pc = AllIdle
    /\ cur = NoTimes
    /\ tmp = NoLists
    /\ tip = NoIps
    /\ calls = 0
    /\ utcnow = 0
    /\ bearer = NoBearers
    /\ auth = NoAnswers
    /\ blocked_operations \in BlockedConfigs
    /\ allowed_tables \in AllowedConfigs
    /\ stmt \in Statements
    /\ query = Render(stmt)
    /\ checked = NotChecked
    /\ limited = NotLimited
    /\ rq = NoRequests
    /\ conn = "None"
    /\ eq = NoExecute
    /\ sess = NoSession
    /\ memory = NoMemory

QueryNext == ValidateQuery \/ AddSafetyLimits

SpecQuery == QueryInit /\ [][QueryNext]_vars

----------------------------------------------------------------------------
(* SpecRewrite: validate_query and add_safety_limits applied to the
   statements of the rewriter, under the default blocked operations *)

RewriteInit ==
    /\ now = 0
    /\ rate_limits = NoWindows
    /\ admitted = NoWindows
    /\ rl_last = NoCall
    /\ denied = NeverDenied
    /\ pc = AllIdle
    /\ cur = NoTimes
    /\ tmp = NoLists
    /\ tip = NoIps
    /\ calls = 0
    /\ utcnow = 0
    /\ bearer = NoBearers
    /\ auth = NoAnswers
    /\ blocked_operations = DefaultBlocked
    /\ allowed_tables \in AllowedConfigs
    /\ stmt \in RewriteStatements
    /\ query = RenderRewrite(stmt)
    /\ checked = NotChecked
    /\ limited = NotLimited
    /\ rq = NoRequests
    /\ conn = "None"
    /\ eq = NoExecute
    /\ sess = NoSession
    /\ memory = NoMemory

RewriteNext == ValidateQuery \/ AddSafetyLimits

SpecRewrite == RewriteInit /\ [][RewriteNext]_vars

----------------------------------------------------------------------------
(* SpecDeny: validate_query and add_safety_limits applied to statements
   that hold a form of the denylist, under every blocked list and allowlist *)

DenyInit ==
    /\ now = 0
    /\ rate_limits = NoWindows
    /\ admitted = NoWindows
    /\ rl_last = NoCall
    /\ denied = NeverDenied
    /\ pc = AllIdle
    /\ cur = NoTimes
    /\ tmp = NoLists
    /\ tip = NoIps
    /\ calls = 0
    /\ utcnow = 0
    /\ bearer = NoBearers
    /\ auth = NoAnswers
    /\ blocked_operations \in DenyBlocked
    /\ allowed_tables \in AllowedConfigs
    /\ stmt \in DenyStatements
    /\ query = RenderDeny(stmt)
    /\ checked = NotChecked
    /\ limited = NotLimited
    /\ rq = NoRequests
    /\ conn = "None"
    /\ eq = NoExecute
    /\ sess = NoSession
    /\ memory = NoMemory

DenyNext == ValidateQuery \/ AddSafetyLimits

SpecDeny == DenyInit /\ [][DenyNext]_vars

----------------------------------------------------------------------------
(* SpecGate: inbound requests, from the dependencies of their route to the
   connector. get_current_user and check_rate_limit are plain "def"
   dependencies, run on threadpool workers in the order the route declares
   them; the route handlers are "async def" and call the connector without
   awaiting, so one handler at a time is inside the connector. *)

\* handlers that start while another one is inside the connector
C21_MutBusy == FALSE

\* a handler is running between two awaits
Busy == \E r \in DOMAIN rq : rq[r].stage \in {"tools", "exec"}

\* what a request has been through so far, each step noted once
Note(order, what) ==
    IF \E i \in DOMAIN order : order[i] = what THEN order ELSE Append(order, what)

\* get_connection, snowflake.py 104-124: the open connection, or a new one,
\* or the exception of snowflake.connector.connect
get_connection ==
    IF conn = "open"
    THEN {[ok |-> TRUE, conn |-> "open"]}
    ELSE {[ok |-> TRUE, conn |-> "open"], [ok |-> FALSE, conn |-> conn]}

\* get_available_tables, snowflake.py 204-215: get_connection, a cursor,
\* cursor.execute("SHOW TABLES"), the names of the rows; on every exception,
\* of get_connection or of the cursor, the empty list (213-215). What is
\* returned is a list in each case; raised keeps whether the driver raised.
get_available_tables ==
    { o \in { [conn |-> g.conn, acquired |-> g.ok, sent |-> g.ok,
               returned |-> "list", raised |-> bad] :
                 g \in get_connection, bad \in BOOLEAN } :
        o.acquired \/ o.raised }

\* what get_available_tables gave a request
Listing(o) == [returned |-> o.returned, raised |-> o.raised]
NotListed == [returned |-> "none", raised |-> FALSE]

\* the steps of a request after a call of get_available_tables
AfterTables(order, o) ==
    IF o.sent THEN Note(Note(order, "connection"), "warehouse") ELSE order

\* a request arrives at one of the routes, carrying one of the tokens;
\* /health declares no dependency (main.py 119-120)
Arrive(r, endpoints, tokens) ==
    /\ rq[r].stage \in {"none", "done"}
    /\ \E e \in endpoints, t \in tokens :
          rq' = [rq EXCEPT ![r] =
                    [endpoint |-> e, token |-> t,
                     stage |-> IF e = "health" THEN "handler" ELSE "auth",
                     order |-> << >>, tools |-> 0, status |-> 0,
                     listing |-> NotListed]]
    /\ UNCHANGED <<conn, eq, rate_vars, race_vars, tok_vars, q_vars, sess, memory>>

NewRequest(r) == Arrive(r, Endpoints, GateTokens)

\* Depends(get_current_user): main.py 168, 268, 288; the token is read
\* here and nowhere later (security.py 96)
GateAuth(r) ==
    /\ rq[r].stage = "auth"
    /\ LET user == get_current_user(rq[r].token)
       IN  rq' = [rq EXCEPT ![r] =
                    IF user.ok
                    THEN [@ EXCEPT !.order = Note(@, "verified"),
                                   !.token = NoToken,
                                   !.stage = IF rq[r].endpoint = "query"
                                             THEN "rate" ELSE "handler"]
                    ELSE [@ EXCEPT !.stage = "done",
                                   !.token = NoToken,
                                   !.status = user.error.status_code]]
    /\ UNCHANGED <<conn, eq, rate_vars, race_vars, tok_vars, q_vars, sess, memory>>

\* Depends(check_rate_limit): main.py 169, security.py 110-120
GateRate(r) ==
    /\ rq[r].stage = "rate"
    /\ CheckRateLimit(ClientHost)
    /\ rq' = [rq EXCEPT ![r] =
                IF rl_last'.ret
                THEN [@ EXCEPT !.order = Note(@, "admitted"), !.stage = "handler"]
                ELSE [@ EXCEPT !.stage = "done", !.status = 429]]
    /\ UNCHANGED <<denied, now, conn, eq, race_vars, tok_vars, q_vars, sess, memory>>

\* health_check, main.py 119-148: get_connection and nothing else
GateHealth(r) ==
    /\ rq[r].stage = "handler" /\ rq[r].endpoint = "health" /\ ~Busy
    /\ \E g \in get_connection :
          /\ conn' = g.conn
          /\ rq' = [rq EXCEPT ![r] =
                      [@ EXCEPT !.stage = "done",
                                !.status = IF g.ok THEN 200 ELSE 503,
                                !.order = IF g.ok THEN Note(@, "connection") ELSE @]]
    /\ UNCHANGED <<eq, rate_vars, race_vars, tok_vars, q_vars, sess, memory>>

\* the route GET /tables, main.py 267-282
GateTables(r) ==
    /\ rq[r].stage = "handler" /\ rq[r].endpoint = "tables" /\ ~Busy
    /\ \E o \in get_available_tables :
          /\ conn' = o.conn
          /\ rq' = [rq EXCEPT ![r] =
                      [@ EXCEPT !.stage = "done", !.status = 200,
                                !.listing = Listing(o),
                                !.order = AfterTables(@, o)]]
    /\ UNCHANGED <<eq, rate_vars, race_vars, tok_vars, q_vars, sess, memory>>

\* execute_query(query) is entered, snowflake.py 126-128
StartExecute(r, q) == [NoExecute EXCEPT !.pc = "validate", !.owner = r, !.query = q]

\* the route GET /tables/{table_name}/schema, main.py 285-299, calls
\* get_table_schema, snowflake.py 184-202, which calls execute_query
GateSchema(r) ==
    /\ rq[r].stage = "handler" /\ rq[r].endpoint = "schema" /\ ~Busy
    /\ eq' = StartExecute(r, SchemaQuery)
    /\ rq' = [rq EXCEPT ![r].stage = "exec"]
    /\ UNCHANGED <<conn, rate_vars, race_vars, tok_vars, q_vars, sess, memory>>

\* the route POST /query, main.py 164-222: process_query of the agent is
\* resumed with the reply of the model, which holds some tool calls
\* (langchain_agent.py 105-114)
GateAgent(r) ==
    /\ rq[r].stage = "handler" /\ rq[r].endpoint = "query" /\ ~Busy
    /\ \E n \in 0..MaxTools :
          rq' = [rq EXCEPT ![r].stage = "tools", ![r].tools = n]
    /\ UNCHANGED <<conn, eq, rate_vars, race_vars, tok_vars, q_vars, sess, memory>>

\* the loop over tool_calls is over, langchain_agent.py 145-163
AgentDone(r) ==
    /\ rq[r].stage = "tools" /\ rq[r].tools = 0
    /\ rq' = [rq EXCEPT ![r].stage = "done", ![r].status = 200]
    /\ UNCHANGED <<conn, eq, rate_vars, race_vars, tok_vars, q_vars, sess, memory>>

\* TOOL_CALL: get_table_names(), langchain_agent.py 117-118
AgentTableNames(r) ==
    /\ rq[r].stage = "tools" /\ rq[r].tools > 0
    /\ \E o \in get_available_tables :
          /\ conn' = o.conn
          /\ rq' = [rq EXCEPT ![r] =
                      [@ EXCEPT !.tools = @ - 1, !.listing = Listing(o),
                                !.order = AfterTables(@, o)]]
    /\ UNCHANGED <<eq, rate_vars, race_vars, tok_vars, q_vars, sess, memory>>

\* TOOL_CALL: get_table_schema(...), langchain_agent.py 119-122
AgentSchema(r) ==
    /\ rq[r].stage = "tools" /\ rq[r].tools > 0
    /\ eq' = StartExecute(r, SchemaQuery)
    /\ rq' = [rq EXCEPT ![r].stage = "exec", ![r].tools = @ - 1]
    /\ UNCHANGED <<conn, rate_vars, race_vars, tok_vars, q_vars, sess, memory>>

\* TOOL_CALL: execute_snowflake_query(...), langchain_agent.py 123-130
AgentQuery(r) ==
    /\ rq[r].stage = "tools" /\ rq[r].tools > 0
    /\ \E st \in GateStatements : eq' = StartExecute(r, Render(st))
    /\ rq' = [rq EXCEPT ![r].stage = "exec", ![r].tools = @ - 1]
    /\ UNCHANGED <<conn, rate_vars, race_vars, tok_vars, q_vars, sess, memory>>

\* execute_query is left, by return or by exception: the tools turn every
\* exception into text (snowflake_tool.py 50-84), the schema route into
\* status 500 (main.py 297-299)
Leave(how) ==
    [rq EXCEPT ![eq.owner] =
        IF @.endpoint = "schema"
        THEN [@ EXCEPT !.stage = "done", !.status = IF how = "ok" THEN 200 ELSE 500]
        ELSE [@ EXCEPT !.stage = "tools"]]

\* str(e) of an exception of snowflake.connector
DriverMessage == <<"d","r","i","v","e","r">>

Raised(kind, message) == [kind |-> kind, message |-> message, row_count |-> 0]

\* line 131: validate, and proceed whatever the answer
C3_MutEqValidate ==
    /\ eq.pc = "validate"
    /\ eq' = [eq EXCEPT !.checked = [done |-> TRUE] @@ validate_query(eq.query),
                        !.pc = "limits"]
    /\ UNCHANGED <<rq, conn, rate_vars, race_vars, tok_vars, q_vars, sess, memory>>

\* lines 131-134
EqValidate ==
    /\ eq.pc = "validate"
    /\ LET c == [done |-> TRUE] @@ validate_query(eq.query)
       IN  IF c.valid
           THEN /\ eq' = [eq EXCEPT !.checked = c, !.pc = "limits"]
                /\ rq' = rq
           ELSE /\ eq' = [eq EXCEPT !.checked = c, !.pc = "idle",
                            !.outcome = Raised("ValueError", ValidationFailed(c.message))]
                /\ rq' = Leave("ValueError")
    /\ UNCHANGED <<conn, rate_vars, race_vars, tok_vars, q_vars, sess, memory>>

\* line 137
EqLimits ==
    /\ eq.pc = "limits"
    /\ eq' = [eq EXCEPT !.limited = [done |-> TRUE, text |-> add_safety_limits(eq.query)],
                        !.pc = "connect"]
    /\ UNCHANGED <<rq, conn, rate_vars, race_vars, tok_vars, q_vars, sess, memory>>

\* lines 140-141, and 174-182 when get_connection raises; the cursor of
\* line 141 is closed nowhere in execute_query, on no path
EqConnect ==
    /\ eq.pc = "connect"
    /\ \E g \in get_connection :
          /\ conn' = g.conn
          /\ IF g.ok
             THEN /\ eq' = [eq EXCEPT !.connection = "acquired", !.cursor = "open",
                              !.pc = "timeout"]
                  /\ rq' = [rq EXCEPT ![eq.owner].order = Note(@, "connection")]
             ELSE /\ eq' = [eq EXCEPT !.connection = "raised", !.pc = "idle",
                              !.outcome = Raised("DriverError", DriverMessage)]
                  /\ rq' = Leave("DriverError")
    /\ UNCHANGED <<rate_vars, race_vars, tok_vars, q_vars, sess, memory>>

\* one cursor.execute of execute_query: the statement is handed to the
\* driver, which answers or raises (174-182)
CursorExecute(what, next) ==
    /\ \/ /\ eq' = [eq EXCEPT !.sent = Append(@, what), !.pc = next]
          /\ rq' = [rq EXCEPT ![eq.owner].order = Note(@, "warehouse")]
       \/ /\ eq' = [eq EXCEPT !.sent = Append(@, what), !.pc = "idle",
                      !.outcome = Raised("DriverError", DriverMessage)]
          /\ rq' = [Leave("DriverError") EXCEPT ![eq.owner].order = Note(@, "warehouse")]
    /\ UNCHANGED <<conn, rate_vars, race_vars, tok_vars, q_vars, sess, memory>>

\* line 144: ALTER SESSION SET STATEMENT_TIMEOUT_IN_SECONDS
EqTimeout == eq.pc = "timeout" /\ CursorExecute("timeout", "execute")

\* lines 147-150: the statement add_safety_limits returned
EqExecute == eq.pc = "execute" /\ CursorExecute("query", "fetch")

\* lines 153-172: fetchall and the result
EqFetch ==
    /\ eq.pc = "fetch"
    /\ \E n \in 0..EngineRows(eq.limited.text) :
          eq' = [eq EXCEPT !.pc = "idle",
                   !.outcome = [kind |-> "ok", message |-> << >>, row_count |-> n]]
    /\ rq' = Leave("ok")
    /\ UNCHANGED <<conn, rate_vars, race_vars, tok_vars, q_vars, sess, memory>>

\* the session ends on the side of the warehouse: is_closed() of line 106
\* turns true
ConnLost ==
    /\ conn = "open"
    /\ conn' = "closed"
    /\ UNCHANGED <<rq, eq, rate_vars, race_vars, tok_vars, q_vars, sess, memory>>

GateInit ==
    /\ now = 0
    /\ rate_limits = NoWindows
    /\ admitted = NoWindows
    /\ rl_last = NoCall
    /\ denied = NeverDenied
    /\ pc = AllIdle
    /\ cur = NoTimes
    /\ tmp = NoLists
    /\ tip = NoIps
    /\ calls = 0
    /\ utcnow = 0
    /\ bearer = NoBearers
    /\ auth = NoAnswers
    /\ blocked_operations = DefaultBlocked
    /\ allowed_tables \in AllowedConfigs
    /\ stmt = FirstStatement
    /\ query = Render(stmt)
    /\ checked = NotChecked
    /\ limited = NotLimited
    /\ rq = NoRequests
    /\ conn = "None"
    /\ eq = NoExecute
    /\ sess = NoSession
    /\ memory = NoMemory

GateNext ==
    \/ \E r \in Inbound :
          \/ NewRequest(r) \/ GateAuth(r) \/ GateRate(r)
          \/ GateHealth(r) \/ GateTables(r) \/ GateSchema(r) \/ GateAgent(r)
          \/ AgentDone(r) \/ AgentTableNames(r) \/ AgentSchema(r) \/ AgentQuery(r)
    \/ EqValidate \/ EqLimits \/ EqConnect \/ EqTimeout \/ EqExecute \/ EqFetch
    \/ ConnLost

SpecGate == GateInit /\ [][GateNext]_vars

----------------------------------------------------------------------------
(* SpecShare: two requests at a time on the routes whose handlers call the
   connector themselves: /health (main.py 132), /tables (272) and
   /tables/{table_name}/schema (293). The handlers share the one
   snowflake_connector of snowflake.py 225 and its _connection. *)

Sharers == {"q1", "q2"}
ShareEndpoints == {"health", "tables", "schema"}

ShareRequest(r) == Arrive(r, ShareEndpoints, GateTokens)

ShareInit ==
    /\ now = 0
    /\ rate_limits = NoWindows
    /\ admitted = NoWindows
    /\ rl_last = NoCall
    /\ denied = NeverDenied
    /\ pc = AllIdle
    /\ cur = NoTimes
    /\ tmp = NoLists
    /\ tip = NoIps
    /\ calls = 0
    /\ utcnow = 0
    /\ bearer = NoBearers
    /\ auth = NoAnswers
    /\ blocked_operations = DefaultBlocked
    /\ allowed_tables \in AllowedConfigs
    /\ stmt = FirstStatement
    /\ query = Render(stmt)
    /\ checked = NotChecked
    /\ limited = NotLimited
    /\ rq = [r \in Sharers |-> NoRequest]
    /\ conn = "None"
    /\ eq = NoExecute
    /\ sess = NoSession
    /\ memory = NoMemory

ShareNext ==
    \/ \E r \in Sharers :
          \/ ShareRequest(r) \/ GateAuth(r)
          \/ GateHealth(r) \/ GateTables(r) \/ GateSchema(r)
    \/ EqValidate \/ EqLimits \/ EqConnect \/ EqTimeout \/ EqExecute \/ EqFetch
    \/ ConnLost

SpecShare == ShareInit /\ [][ShareNext]_vars

----------------------------------------------------------------------------
(* SpecConn: the calls the application makes on snowflake_connector, one
   after another (no two overlap), and what happens to the session behind
   _connection between them. Each call is taken whole. *)

\* statements handed to execute_query
ConnStatements == { Render(st) : st \in GateStatements } \cup { SchemaQuery }

\* the condition of _connection as line 106 and the warehouse see it: None,
\* closed (is_closed() is True), dead (the session has ended while
\* is_closed() is still False), or open
Found ==
    IF conn # "open" THEN conn
    ELSE IF sess.alive THEN "open" ELSE "dead"

\* the session after get_connection answered g: the one there was, or the
\* new one of lines 108-118, which has no statement timeout set yet
Connected(g) ==
    IF conn = "open" \/ ~g.ok
    THEN [sess EXCEPT !.last = NoUse]
    ELSE [handle |-> sess.handle + 1, alive |-> TRUE, timed |-> FALSE, last |-> NoUse]

\* snowflake.connector.connect succeeds MaxConnects times at most
CanConnect(g) == (conn # "open" /\ g.ok) => sess.handle < MaxConnects

\* the call so far: which handle it found, and what get_connection did
Use(op, g) ==
    [op |-> op, held |-> sess.handle, found |-> Found, used |-> TRUE,
     connect |-> IF conn = "open" THEN "no" ELSE IF g.ok THEN "ok" ELSE "raised",
     handle |-> Connected(g).handle, raised |-> ~g.ok, sent |-> << >>]

\* cursor.execute on the session: a dead session raises, a live one
\* answers or raises
Answers(session) == IF session.alive THEN BOOLEAN ELSE {FALSE}

\* health_check, main.py 131-132: get_connection and nothing else
ConnHealth ==
    /\ \E g \in get_connection :
          /\ CanConnect(g)
          /\ conn' = g.conn
          /\ sess' = [Connected(g) EXCEPT !.last = Use("get_connection", g)]
    /\ UNCHANGED <<memory, rq, eq, rate_vars, race_vars, tok_vars, q_vars>>

\* get_available_tables, lines 204-215: get_connection, then SHOW TABLES on
\* whatever session that is; every exception ends in the empty list
ConnTables ==
    /\ \E g \in get_connection :
          /\ CanConnect(g)
          /\ conn' = g.conn
          /\ LET session == Connected(g)
                 use == Use("get_available_tables", g)
             IN  IF ~g.ok
                 THEN sess' = [session EXCEPT !.last = [use EXCEPT !.raised = FALSE]]
                 ELSE \E ok \in Answers(session) :
                        sess' = [session EXCEPT !.last =
                                   [use EXCEPT !.sent =
                                      <<[what |-> "SHOW TABLES", timed |-> session.timed]>>]]
    /\ UNCHANGED <<memory, rq, eq, rate_vars, race_vars, tok_vars, q_vars>>

\* execute_query, lines 126-182: a rejected statement raises before the
\* connector is touched (131-134); else get_connection (140), the ALTER
\* SESSION of line 144, the statement (147-150); the first exception ends
\* the call (174-182)
ConnExecute ==
    /\ \E q \in ConnStatements :
          IF ~validate_query(q).valid
          THEN /\ conn' = conn
               /\ sess' = [sess EXCEPT !.last =
                             [NoUse EXCEPT !.op = "execute_query", !.held = sess.handle,
                                           !.found = Found, !.handle = sess.handle,
                                           !.raised = TRUE]]
          ELSE \E g \in get_connection :
                 /\ CanConnect(g)
                 /\ conn' = g.conn
                 /\ LET session == Connected(g)
                        use == Use("execute_query", g)
                        alter == [what |-> "timeout", timed |-> session.timed]
                        stmnt == [what |-> "query", timed |-> TRUE]
                    IN  IF ~g.ok
                        THEN sess' = [session EXCEPT !.last = use]
                        ELSE \E set \in Answers(session), ran \in Answers(session) :
                               sess' =
                                 IF ~set
                                 THEN [session EXCEPT !.last =
                                         [use EXCEPT !.sent = <<alter>>, !.raised = TRUE]]
                                 ELSE [session EXCEPT !.timed = TRUE, !.last =
                                         [use EXCEPT !.sent = <<alter, stmnt>>,
                                                     !.raised = ~ran]]
    /\ UNCHANGED <<memory, rq, eq, rate_vars, race_vars, tok_vars, q_vars>>

\* close, lines 217-221
ConnClose ==
    /\ conn' = IF conn = "open" THEN "closed" ELSE conn
    /\ sess' = [sess EXCEPT !.last =
                  [NoUse EXCEPT !.op = "close", !.held = sess.handle,
                                !.found = Found, !.handle = sess.handle]]
    /\ UNCHANGED <<memory, rq, eq, rate_vars, race_vars, tok_vars, q_vars>>

\* the session ends on the side of the warehouse or the network, and the
\* handle does not notice: is_closed() stays False
SessionDies ==
    /\ conn = "open" /\ sess.alive
    /\ sess' = [sess EXCEPT !.alive = FALSE]
    /\ UNCHANGED <<memory, rq, conn, eq, rate_vars, race_vars, tok_vars, q_vars>>

ConnInit ==
    /\ now = 0
    /\ rate_limits = NoWindows
    /\ admitted = NoWindows
    /\ rl_last = NoCall
    /\ denied = NeverDenied
    /\ pc = AllIdle
    /\ cur = NoTimes
    /\ tmp = NoLists
    /\ tip = NoIps
    /\ calls = 0
    /\ utcnow = 0
    /\ bearer = NoBearers
    /\ auth = NoAnswers
    /\ blocked_operations = DefaultBlocked
    /\ allowed_tables \in AllowedConfigs
    /\ stmt = FirstStatement
    /\ query = Render(stmt)
    /\ checked = NotChecked
    /\ limited = NotLimited
    /\ rq = NoRequests
    /\ conn = "None"
    /\ eq = NoExecute
    /\ sess = NoSession
    /\ memory = NoMemory

ConnNext ==
    \/ ConnHealth \/ ConnTables \/ ConnExecute \/ ConnClose
    \/ SessionDies \/ ConnLost

SpecConn == ConnInit /\ [][ConnNext]_vars

----------------------------------------------------------------------------
(* SpecChat: the calls of POST /query and DELETE /conversations/{id} on the
   one langchain_agent (langchain_agent.py 197). Every message carries the
   conversation_id of the call that stored it, which the code keeps
   nowhere. *)

Message(role, c) == [role |-> role, conversation |-> c]

\* process_query, lines 58-173: the history is every message of
\* self.memory.chat_memory (67, 96-100); when the model answers, the query
\* and the reply are stored in the same memory (146-147); when it raises,
\* nothing is stored (164-173)
ProcessQuery(c) ==
    /\ Len(memory.messages) + 2 <= MaxMessages
    /\ \E answered \in BOOLEAN :
          memory' =
            [messages |-> IF answered
                          THEN memory.messages \o <<Message("human", c), Message("ai", c)>>
                          ELSE memory.messages,
             last |-> [op |-> "process_query", conversation |-> c,
                       success |-> answered, touched |-> memory.messages]]
    /\ UNCHANGED <<rq, conn, eq, sess, rate_vars, race_vars, tok_vars, q_vars>>

\* clear_conversation, lines 189-193: self.memory.clear(), whatever the id
ClearConversation(c) ==
    /\ memory' = [messages |-> << >>,
                  last |-> [op |-> "clear_conversation", conversation |-> c,
                            success |-> TRUE, touched |-> memory.messages]]
    /\ UNCHANGED <<rq, conn, eq, sess, rate_vars, race_vars, tok_vars, q_vars>>

ChatInit ==
    /\ now = 0
    /\ rate_limits = NoWindows
    /\ admitted = NoWindows
    /\ rl_last = NoCall
    /\ denied = NeverDenied
    /\ pc = AllIdle
    /\ cur = NoTimes
    /\ tmp = NoLists
    /\ tip = NoIps
    /\ calls = 0
    /\ utcnow = 0
    /\ bearer = NoBearers
    /\ auth = NoAnswers
    /\ blocked_operations = DefaultBlocked
    /\ allowed_tables = << >>
    /\ stmt = FirstStatement
    /\ query = Render(stmt)
    /\ checked = NotChecked
    /\ limited = NotLimited
    /\ rq = NoRequests
    /\ conn = "None"
    /\ eq = NoExecute
    /\ sess = NoSession
    /\ memory = NoMemory

ChatNext == \E c \in Conversations : ProcessQuery(c) \/ ClearConversation(c)

SpecChat == ChatInit /\ [][ChatNext]_vars

----------------------------------------------------------------------------
(* C1: for every identity, the calls of check_rate_limit that returned True
   with a timestamp inside any trailing window (t - rate_limit_window, t]
   number at most rate_limit_requests, whatever the timing of the calls. *)
C1_AtMostNPerWindow ==
    \A ip \in Identities : \A t \in 0..MaxTime :
        InWindow(admitted[ip], t) <= rate_limit_requests

\* an identity was admitted more often than the limit in all (the window slid),
\* and its last call was rejected at a full window
C1_Witness ==
    \E ip \in Identities :
        /\ Len(admitted[ip]) > rate_limit_requests
        /\ rl_last = [ip |-> ip, at |-> now, ret |-> FALSE]
        /\ InWindow(admitted[ip], now) = rate_limit_requests

(* Why the token request r presents fails, read off the token itself and the
   time it was presented at: not a JWT, not signed by the configured key and
   algorithm, past its "exp" second, or carrying no "sub". *)
Cause(r) ==
    LET t == bearer[r].token
    IN  IF t.form # "jws" THEN "Malformed"
        ELSE IF t.key # secret_key \/ t.alg # algorithm THEN "InvalidSignature"
        ELSE IF "exp" \in DOMAIN t.payload /\ Seconds(auth[r].at) > t.payload["exp"]
             THEN "Expired"
        ELSE IF "sub" \notin DOMAIN t.payload THEN "MissingSubject"
        ELSE "none"

VerifyCauses == {"Malformed", "InvalidSignature", "Expired"}

(* C8 as stated: verify_token(create_access_token(claims)) returns the claims
   unchanged when called before the expiry time and fails when called after
   it. *)
C8_RoundTripUnchanged ==
    \A r \in Requests :
        (auth[r].seen /\ bearer[r].made = "issued") =>
            /\ auth[r].at < bearer[r].expire =>
                  (auth[r].verified.ok /\ auth[r].verified.payload = bearer[r].data)
            /\ auth[r].at > bearer[r].expire => ~auth[r].verified.ok

(* C8 amended: verify_token(create_access_token(claims)) returns the claims
   with "exp" set to the whole second of the expiry computed at issue (a
   given "exp" is replaced), every other claim unchanged, when called no
   later than that second, and fails with the 401 credentials error when
   called in a later second. *)
C8_RoundTripWithExp ==
    \A r \in Requests :
        (auth[r].seen /\ bearer[r].made = "issued") =>
            LET exp == Seconds(bearer[r].expire)
            IN  IF Seconds(auth[r].at) <= exp
                THEN /\ auth[r].verified.ok
                     /\ auth[r].verified.payload = Update(bearer[r].data, "exp", exp)
                ELSE /\ ~auth[r].verified.ok
                     /\ auth[r].verified.error = Unauthorized

\* one issued token verified in time although claims carried another "exp",
\* another issued token presented after its expiry second
C8_Witness ==
    \E r1, r2 \in Requests :
        /\ auth[r1].seen /\ bearer[r1].made = "issued"
        /\ "exp" \in DOMAIN bearer[r1].data
        /\ auth[r1].verified.ok
        /\ auth[r2].seen /\ bearer[r2].made = "issued"
        /\ Seconds(auth[r2].at) > Seconds(bearer[r2].expire)

(* C9: whichever check fails (expired, bad signature, malformed, missing
   subject), get_current_user answers with the same status, detail and
   headers: any two failed authentications have equal error responses. *)
C9_SameFailureResponse ==
    \A r1, r2 \in Requests :
        (auth[r1].seen /\ auth[r2].seen /\ ~auth[r1].out.ok /\ ~auth[r2].out.ok) =>
            auth[r1].out.error = auth[r2].out.error

\* two requests failed, one past its expiry and one for its missing subject
C9_Witness ==
    \E r1, r2 \in Requests :
        /\ auth[r1].seen /\ auth[r2].seen
        /\ ~auth[r1].out.ok /\ ~auth[r2].out.ok
        /\ Cause(r1) = "Expired"
        /\ Cause(r2) = "MissingSubject"

(* C10 as stated: verify_token reports Expired, InvalidSignature and
   Malformed as three distinguishable outcomes. *)
C10_ThreeDistinctOutcomes ==
    \A r1, r2 \in Requests :
        (/\ auth[r1].seen /\ auth[r2].seen
         /\ Cause(r1) \in VerifyCauses /\ Cause(r2) \in VerifyCauses
         /\ Cause(r1) # Cause(r2)) =>
            auth[r1].verified # auth[r2].verified

(* C10 amended: verify_token fails exactly when the token is past its "exp"
   second, is not signed by the configured key and algorithm, or cannot be
   decoded, and reports all three with one and the same outcome: 401 "Could
   not validate credentials". *)
C10_OneOutcome ==
    \A r \in Requests :
        auth[r].seen =>
            /\ ~auth[r].verified.ok <=> Cause(r) \in VerifyCauses
            /\ ~auth[r].verified.ok => auth[r].verified.error = Unauthorized

\* an expired token and a token with a foreign signature were both refused
C10_Witness ==
    \E r1, r2 \in Requests :
        /\ auth[r1].seen /\ auth[r2].seen
        /\ Cause(r1) = "Expired" /\ Cause(r2) = "InvalidSignature"
        /\ ~auth[r1].verified.ok /\ ~auth[r2].verified.ok

(* Reading a statement without the validator: op occurs in q at position i
   whatever the letter-casing of either *)
OccursAt(q, i, op) ==
    /\ i + Len(op) - 1 <= Len(q)
    /\ \A j \in 1..Len(op) : UpperChar(q[i + j - 1]) = UpperChar(op[j])

HasKeyword(q, op) == \E i \in 1..Len(q) : OccursAt(q, i, op)

(* C4: a statement that contains any configured blocked operation keyword,
   in any letter-casing and at any position, is rejected by validate_query,
   and the reason includes a blocked keyword the statement contains. *)
C4_BlockedKeywordRejected ==
    checked.done =>
        \A k \in DOMAIN blocked_operations :
            HasKeyword(query, blocked_operations[k]) =>
                /\ ~checked.valid
                /\ \E m \in DOMAIN blocked_operations :
                      /\ HasKeyword(query, blocked_operations[m])
                      /\ Contains(checked.message, blocked_operations[m])

\* a rejected statement whose only blocked keyword is written in another
\* letter-casing than configured and does not start the statement
C4_Witness ==
    /\ checked.done /\ ~checked.valid
    /\ \E k \in DOMAIN blocked_operations :
          /\ HasKeyword(query, blocked_operations[k])
          /\ ~Contains(query, blocked_operations[k])
          /\ ~Contains(query, Upper(blocked_operations[k]))
          /\ ~OccursAt(query, 1, blocked_operations[k])
          /\ Contains(checked.message, blocked_operations[k])
          /\ \A m \in DOMAIN blocked_operations :
                m # k => ~HasKeyword(query, blocked_operations[m])

\* the statement's FROM target is an entry of the allowlist, letter case
\* ignored
TargetInside ==
    \E a \in DOMAIN allowed_tables : Upper(allowed_tables[a]) = Upper(TargetName(stmt))

\* the blocked-keyword scan or the suspicious-pattern denylist rejects it
OtherRuleFires ==
    \/ \E k \in DOMAIN blocked_operations : HasKeyword(query, blocked_operations[k])
    \/ FirstSuspicious(Strip(Upper(query))) # 0

(* C5: with a non-empty allowlist, a statement whose FROM target (bare,
   schema.table or quoted) is outside the allowlist is rejected, and one whose
   FROM target is inside it and that triggers no other rule is accepted. *)
C5_AllowlistDecides ==
    (checked.done /\ allowed_tables # << >>) =>
        /\ ~TargetInside => ~checked.valid
        /\ (TargetInside /\ ~OtherRuleFires) => checked.valid

(* C2: when several requests run check_rate_limit concurrently, the prune,
   count-check and append steps of one call do not interleave with those of
   another, so concurrent callers are never admitted beyond
   rate_limit_requests in one window. *)
C2_ConcurrentNeverOverAdmit ==
    \A ip \in Identities : \A t \in 0..MaxTime :
        InWindow(admitted[ip], t) <= rate_limit_requests

----------------------------------------------------------------------------
(* C3: in execute_query, add_safety_limits, get_connection and every
   cursor.execute happen only after validate_query accepted the statement;
   when validate_query rejects, the call is over at once with ValueError
   carrying the reason of the validator, get_connection was not called and
   no statement was handed to the driver. *)

C3_ValidatedFirst ==
    /\ eq.checked.done => eq.checked = [done |-> TRUE] @@ validate_query(eq.query)
    /\ (eq.limited.done \/ eq.connection # "none" \/ eq.sent # << >>)
          => (eq.checked.done /\ eq.checked.valid)
    /\ (eq.checked.done /\ ~eq.checked.valid)
          => /\ eq.pc = "idle"
             /\ eq.outcome = Raised("ValueError", ValidationFailed(eq.checked.message))
             /\ ~eq.limited.done
             /\ eq.connection = "none"
             /\ eq.sent = << >>

\* a call was rejected by the validator after an earlier call of the same
\* request was accepted and reached the warehouse
C3_Witness ==
    /\ eq.owner \in Inbound
    /\ eq.checked.done /\ ~eq.checked.valid
    /\ eq.outcome.kind = "ValueError"
    /\ \E i \in DOMAIN rq[eq.owner].order : rq[eq.owner].order[i] = "warehouse"

----------------------------------------------------------------------------
(* C6: every successful execute_query result has row_count <= max_query_rows,
   whatever accepted statement was executed. *)

C6_RowCountWithinMax ==
    eq.outcome.kind = "ok" => eq.outcome.row_count <= max_rows

----------------------------------------------------------------------------
(* C7: for every inbound request, a statement is handed to the warehouse only
   after get_current_user succeeded and then check_rate_limit admitted the
   request, in that order; a request answered 401 or 429 caused no warehouse
   call. *)

\* where a step stands among the steps of a request, 0 when it did not happen
Pos(order, what) ==
    IF \E i \in DOMAIN order : order[i] = what
    THEN CHOOSE i \in DOMAIN order : order[i] = what
    ELSE 0

C7_VerifiedThenAdmitted ==
    \A r \in Inbound :
        /\ Pos(rq[r].order, "warehouse") # 0
              => /\ Pos(rq[r].order, "verified") # 0
                 /\ Pos(rq[r].order, "verified") < Pos(rq[r].order, "admitted")
                 /\ Pos(rq[r].order, "admitted") < Pos(rq[r].order, "warehouse")
        /\ rq[r].status \in {401, 429} => Pos(rq[r].order, "warehouse") = 0

----------------------------------------------------------------------------
(* C11: validate_query rejects every empty or whitespace-only statement, and
   the reason it gives is none of the reasons of a policy violation (blocked
   operation, table not allowed, suspicious pattern). *)

PolicyReasons ==
    LET tables == FindTables(Strip(Upper(query)), 1)
    IN  {OperationMessage(blocked_operations[k]) : k \in DOMAIN blocked_operations}
        \cup {TableMessage(TableClean(tables[k])) : k \in DOMAIN tables}
        \cup {PatternMessage(suspicious_patterns[k]) : k \in DOMAIN suspicious_patterns}

C11_BlankRejected ==
    (checked.done /\ Strip(query) = << >>)
        => (~checked.valid /\ checked.message \notin PolicyReasons)

----------------------------------------------------------------------------
(* C12: a call of check_rate_limit that finds the count of retained
   timestamps of the identity already >= rate_limit_requests returns False
   and does not record the current time; every other call returns True and
   appends exactly the current time to the window of that identity. *)

\* the timestamps of a window that a check made at time t retains
Retained(window, t) ==
    SelectSeq(window, LAMBDA ts : t - ts < rate_limit_window)

\* a step of SpecRate that leaves the clock alone is a call, by rl_last'.ip
C12_CallStep ==
    (now' = now) =>
        LET ip == rl_last'.ip
            kept == Retained(rate_limits[ip], now)
        IN  /\ rl_last'.at = now
            /\ IF Len(kept) >= rate_limit_requests
               THEN rl_last'.ret = FALSE /\ rate_limits'[ip] = kept
               ELSE rl_last'.ret = TRUE /\ rate_limits'[ip] = Append(kept, now)

C12_RejectOrRecord == [][C12_CallStep]_vars

\* a call was rejected at a time the window does not hold, with the window
\* full
C12_Witness ==
    /\ rl_last.ip \in Identities
    /\ rl_last.ret = FALSE /\ rl_last.at = now
    /\ Len(rate_limits[rl_last.ip]) = rate_limit_requests
    /\ \A i \in DOMAIN rate_limits[rl_last.ip] : rate_limits[rl_last.ip][i] # now

----------------------------------------------------------------------------
(* C13: after a call check_rate_limit(identity) made at time t, the window
   stored for that identity holds only timestamps strictly newer than
   t - rate_limit_window. *)

C13_WindowFresh ==
    rl_last.ip \in Identities =>
        \A i \in DOMAIN rate_limits[rl_last.ip] :
            rate_limits[rl_last.ip][i] > rl_last.at - rate_limit_window

\* the last call dropped an admission that was exactly one window old and
\* kept a newer one
C13_Witness ==
    /\ rl_last.ip \in Identities
    /\ \E i \in DOMAIN admitted[rl_last.ip] :
          admitted[rl_last.ip][i] = rl_last.at - rate_limit_window
    /\ \E i \in DOMAIN rate_limits[rl_last.ip] :
          rate_limits[rl_last.ip][i] < rl_last.at

----------------------------------------------------------------------------
(* C14: a rejection is recoverable: a call made more than rate_limit_window
   after the last recorded admission of its identity is admitted, also after
   the identity was rejected with rate_limit_requests admissions in its
   window. *)

\* the admissions of the identity of the last call, before that call
PriorAdmissions ==
    IF rl_last.ret
    THEN SubSeq(admitted[rl_last.ip], 1, Len(admitted[rl_last.ip]) - 1)
    ELSE admitted[rl_last.ip]

C14_AdmittedAfterWindow ==
    (/\ rl_last.ip \in Identities
     /\ PriorAdmissions # << >>
     /\ rl_last.at - PriorAdmissions[Len(PriorAdmissions)] > rate_limit_window)
        => rl_last.ret

\* the identity was admitted rate_limit_requests times, rejected, and admitted
\* again more than a window after its last admission
C14_Witness ==
    /\ rl_last.ip = ClientHost /\ rl_last.ret
    /\ Len(PriorAdmissions) = rate_limit_requests
    /\ denied[ClientHost] >= PriorAdmissions[Len(PriorAdmissions)]
    /\ denied[ClientHost] - PriorAdmissions[1] < rate_limit_window
    /\ rl_last.at - PriorAdmissions[Len(PriorAdmissions)] > rate_limit_window

----------------------------------------------------------------------------
(* C15: windows are kept per identity: a call for identity A leaves the
   stored window of every other identity as it was, and the answer to a call
   for B depends on the earlier admissions of B alone. *)

C15_OtherWindowsKept ==
    (now' = now) =>
        \A b \in Identities \ {rl_last'.ip} : rate_limits'[b] = rate_limits[b]

C15_OwnAdmissionsDecide ==
    rl_last.ip \in Identities =>
        (rl_last.ret <=> InWindow(PriorAdmissions, rl_last.at) < rate_limit_requests)

C15_PerIdentity == [][C15_OtherWindowsKept]_vars /\ []C15_OwnAdmissionsDecide

\* B was admitted although A had just filled its own window and was rejected
C15_Witness ==
    \E a \in Identities : \E b \in Identities \ {a} :
        /\ rl_last = [ip |-> b, at |-> now, ret |-> TRUE]
        /\ InWindow(admitted[a], now) = rate_limit_requests
        /\ Len(rate_limits[a]) = rate_limit_requests
        /\ Len(admitted[b]) = 1

----------------------------------------------------------------------------
(* What the claims about add_safety_limits speak of *)

\* the statement begins with SELECT
BeginsWithSelect(q) == StartsWith(Strip(Upper(q)), W_SELECT)

\* a self-bounding condition holds: a limit clause, an aggregate call,
\* INFORMATION_SCHEMA, or a SHOW / DESCRIBE form
SelfBounding(q) ==
    \E mark \in { W_LIMIT,
                  <<"C","O","U","N","T","(">>, <<"S","U","M","(">>,
                  <<"A","V","G","(">>, <<"M","I","N","(">>, <<"M","A","X","(">>,
                  <<"I","N","F","O","R","M","A","T","I","O","N","_","S","C","H","E","M","A">>,
                  <<"S","H","O","W"," ">>, <<"D","E","S","C","R","I","B","E"," ">> } :
        Contains(Upper(q), mark)

\* an ORDER BY clause starts at position i of the upper-cased text u: the
\* two words, any whitespace between them
OrderByStarts(u, i) ==
    /\ MatchAt(u, i, W_ORDER)
    /\ (i = 1 \/ ~IsWord(u[i - 1]))
    /\ SpaceEnd(u, i + 5) > i + 5
    /\ MatchAt(u, SpaceEnd(u, i + 5), W_BY)
    /\ (SpaceEnd(u, i + 5) + 2 > Len(u) \/ ~IsWord(u[SpaceEnd(u, i + 5) + 2]))

\* where the ORDER BY clauses of a statement start
OrderByAt(q) ==
    LET u == Upper(q) IN {i \in 1..Len(q) : OrderByStarts(u, i)}

\* where the limit clause LIMIT <max_rows> occurs in a text
BoundAt(text) ==
    { p \in 1..Len(text) : MatchAt(text, p, W_LIMIT \o <<" ">> \o Str(max_rows)) }

----------------------------------------------------------------------------
(* C16: for a statement that begins with SELECT, meets no self-bounding
   condition and has no ORDER BY clause, add_safety_limits returns the
   statement without its trailing terminator, followed by
   ' LIMIT <max_query_rows>', also when whitespace follows the terminator. *)

\* s consists of terminators and whitespace only
OnlyTerminators(s) == \A i \in DOMAIN s : s[i] = ";" \/ IsSpace(s[i])

C16_AppendAfterTerminator ==
    (/\ limited.done
     /\ BeginsWithSelect(query) /\ ~SelfBounding(query) /\ OrderByAt(query) = {})
        => \E n \in 0..Len(query) :
              /\ limited.text = SubSeq(query, 1, n) \o LimitClause
              /\ OnlyTerminators(SubSeq(query, n + 1, Len(query)))
              /\ \A i \in 1..n : query[i] # ";" \/ ~OnlyTerminators(SubSeq(query, i, n))

----------------------------------------------------------------------------
(* C17: for a statement that begins with SELECT, meets no self-bounding
   condition and has an ORDER BY clause, add_safety_limits inserts exactly
   one limit clause, and it stands immediately before the ORDER BY. *)

C17_OneLimitBeforeOrderBy ==
    (/\ limited.done
     /\ BeginsWithSelect(query) /\ ~SelfBounding(query) /\ OrderByAt(query) # {})
        => /\ Cardinality(BoundAt(limited.text)) = 1
           /\ \E p \in BoundAt(limited.text) :
                 SpaceEnd(limited.text, p + 6 + Len(Str(max_rows)))
                    \in OrderByAt(limited.text)

----------------------------------------------------------------------------
(* C18: add_safety_limits returns its input unchanged whenever a
   self-bounding condition holds, and applying it again to a statement that
   already holds a limit clause returns the same text. *)

C18_SelfBoundingUnchanged ==
    (limited.done /\ SelfBounding(query))
        => /\ limited.text = query
           /\ add_safety_limits(limited.text) = limited.text

\* a SELECT that carries its own limit clause went through the method
C18_Witness ==
    /\ limited.done
    /\ BeginsWithSelect(query)
    /\ Contains(Upper(query), <<" ">> \o W_LIMIT \o <<" ">>)
    /\ ~Contains(Upper(query), <<"(">>)

----------------------------------------------------------------------------
(* C19: add_safety_limits only inserts the bound: the clause keywords SELECT,
   FROM, WHERE and ORDER BY stand in the same order in the output as in the
   input, and the output without the inserted limit clause is the input, up
   to the stripped trailing terminator. *)

W_WHERE == <<"W","H","E","R","E">>

\* the clause keyword that starts at position i of u, "" when none does
KeywordAt(u, i) ==
    IF MatchAt(u, i, W_SELECT) THEN "SELECT"
    ELSE IF MatchAt(u, i, W_FROM) THEN "FROM"
    ELSE IF MatchAt(u, i, W_WHERE) THEN "WHERE"
    ELSE IF OrderByStarts(u, i) THEN "ORDER BY"
    ELSE ""

\* the clause keywords of a text, in the order they stand in
ClauseKeywords(text) ==
    LET u == Upper(text)
        all == [i \in 1..Len(u) |-> KeywordAt(u, i)]
    IN  SelectSeq(all, LAMBDA k : k # "")

\* text without every occurrence of lit, from position i on
RECURSIVE Without(_, _, _)
Without(text, lit, i) ==
    LET at == {p \in i..Len(text) : MatchAt(text, p, lit)}
    IN  IF at = {} THEN SubSeq(text, i, Len(text))
        ELSE LET p == CHOOSE x \in at : \A y \in at : x <= y
             IN  SubSeq(text, i, p - 1) \o Without(text, lit, p + Len(lit))

C19_OnlyInsertsBound ==
    limited.done =>
        /\ ClauseKeywords(limited.text) = ClauseKeywords(query)
        /\ \/ limited.text = query
           \/ limited.text = RStripSemicolon(query) \o LimitClause
           \/ Without(limited.text, LimitClause \o <<" ">>, 1) = query

\* a statement with WHERE and ORDER BY got its bound inserted
C19_Witness ==
    /\ limited.done
    /\ limited.text # query
    /\ ClauseKeywords(query) = <<"SELECT", "FROM", "WHERE", "ORDER BY">>
    /\ BoundAt(limited.text) # {}

----------------------------------------------------------------------------
(* C20: every failure of the driver during an operation of
   SnowflakeConnector reaches the caller as an error that carries the message
   of the driver; no operation answers a failure of the driver with what
   looks like a result. *)

C20_DriverFailureSurfaced ==
    /\ eq.connection = "raised" => eq.outcome = Raised("DriverError", DriverMessage)
    /\ \A r \in Inbound : rq[r].listing.raised => rq[r].listing.returned # "list"

----------------------------------------------------------------------------
\* the requests whose handler is inside a call of the connector
InFlight == { r \in DOMAIN rq : rq[r].stage \in {"tools", "exec"} }

(* C21: no two in-flight executions use the warehouse connection handle at
   the same time: at most one request is inside a call of the connector,
   and the execute_query call that holds the handle is that request's. *)
C21_OneHolder ==
    /\ Cardinality(InFlight) <= 1
    /\ eq.pc # "idle" => InFlight = {eq.owner}

\* an execute_query call holds the handle while the handler of another
\* request is ready to call the connector
C21_Witness ==
    /\ eq.pc # "idle" /\ eq.connection = "acquired"
    /\ \E r \in DOMAIN rq :
          r # eq.owner /\ rq[r].stage = "handler" /\ rq[r].endpoint = "schema"

(* C22: every exit path of a request leaves the shared state consistent:
   a failed token verification and a rejected statement change no
   rate-limit window and no policy value, every stored timestamp is the
   timestamp of an admission, and once execute_query has returned or
   raised, the cursor it opened is no longer open. *)
C22_FailureChangesNothing ==
    (\/ \E r \in DOMAIN rq : rq[r].stage = "auth" /\ rq'[r].stage = "done"
     \/ eq.pc = "validate" /\ eq'.outcome.kind = "ValueError")
       => UNCHANGED <<rate_limits, admitted, blocked_operations, allowed_tables>>

C22_NoHalfAdmission ==
    \A i \in Identities : \A k \in DOMAIN rate_limits[i] :
        \E j \in DOMAIN admitted[i] : admitted[i][j] = rate_limits[i][k]

C22_CursorReleased == eq.pc = "idle" => eq.cursor # "open"

C22_ExitsLeaveStateConsistent ==
    /\ [](C22_NoHalfAdmission /\ C22_CursorReleased)
    /\ [][C22_FailureChangesNothing]_vars

\* the rules the statement violates, each taken by itself
ViolatesKeywords ==
    \E k \in DOMAIN blocked_operations : HasKeyword(query, blocked_operations[k])
ViolatesAllowlist ==
    /\ allowed_tables # << >>
    /\ LET tables == FindTables(Strip(Upper(query)), 1)
       IN  \E t \in DOMAIN tables :
              \A a \in DOMAIN allowed_tables :
                  Upper(TableClean(tables[t])) # Upper(allowed_tables[a])
ViolatesDenylist ==
    \E k \in DOMAIN suspicious_patterns : SearchPattern(k, Strip(Upper(query)))

(* C23: validate_query checks blocked keywords, then the allowlist, then
   the denylist, and stops at the first failure: the reason returned for a
   statement violating several rules is the reason of the earliest check it
   fails, and within that check of its first finding. *)
C23_FirstFailureReported ==
    checked.done =>
        LET u == Strip(Upper(query))
            tables == FindTables(u, 1)
        IN  /\ ViolatesKeywords =>
                  checked.message = OperationMessage(blocked_operations[FirstBlocked(u)])
            /\ (~ViolatesKeywords /\ ViolatesAllowlist) =>
                  checked.message = TableMessage(TableClean(tables[FirstForeign(tables)]))
            /\ (~ViolatesKeywords /\ ~ViolatesAllowlist /\ ViolatesDenylist) =>
                  checked.message =
                      PatternMessage(suspicious_patterns[FirstSuspicious(u)])
            /\ (ViolatesKeywords \/ ViolatesAllowlist \/ ViolatesDenylist) =>
                  ~checked.valid

\* a checked statement that names a table outside the allowlist and holds
\* a denylist form, but no blocked keyword
C23_Witness ==
    /\ checked.done
    /\ ~ViolatesKeywords /\ ViolatesAllowlist /\ ViolatesDenylist

(* C24: every statement that holds a form of the suspicious-pattern
   denylist is rejected by validate_query, whatever the blocked-keyword
   list and the allowlist are. *)
C24_DenylistFormRejected ==
    (checked.done /\ stmt \in DenyStatements) => ~checked.valid

(* C25: every statement sent to the warehouse runs under the server-side
   timeout: whatever call sends a statement on a connection, the session
   has had its statement timeout set by then. *)
C25_TimeoutBeforeStatement ==
    \A i \in DOMAIN sess.last.sent :
        sess.last.sent[i].what # "timeout" => sess.last.sent[i].timed

(* C26: the connection is acquired lazily and reused: no connect before the
   first use; a call that finds the handle open works on that handle and
   connects nothing; a call that finds no handle, a closed one or a dead
   one connects, and works on the new handle when connect succeeds. *)
C26_LazyAndReused ==
    /\ sess.last.op = "none" => (conn = "None" /\ sess.handle = 0)
    /\ (sess.last.used /\ sess.last.found = "open") =>
          (sess.last.connect = "no" /\ sess.last.handle = sess.last.held)
    /\ (sess.last.used /\ sess.last.found # "open") =>
          /\ sess.last.connect # "no"
          /\ sess.last.connect = "ok" => sess.last.handle = sess.last.held + 1
          /\ sess.last.connect = "raised" => sess.last.raised \/ sess.last.op = "get_available_tables"

(* C27: at every time, the window stored for every identity of the map
   holds no timestamp older than the window. *)
C27_NoStaleTimestamp ==
    \A ip \in Identities : \A k \in DOMAIN rate_limits[ip] :
        rate_limits[ip][k] > now - rate_limit_window

(* C28: add_safety_limits is idempotent on every input: applied to its own
   output it returns that output. *)
C28_Idempotent ==
    limited.done => add_safety_limits(limited.text) = limited.text

\* a statement without a limit clause that the rewriter changed
C28_Witness ==
    /\ limited.done
    /\ ~Contains(Upper(query), W_LIMIT)
    /\ limited.text # query

(* C29: the statement of get_table_schema is accepted by validate_query
   under every configured allowlist, empty or not, so that schema
   introspection fails on driver errors only. *)
C29_SchemaQueryAccepted ==
    (eq.query = SchemaQuery /\ eq.checked.done) => eq.checked.valid

(* C30: conversations are isolated by conversation_id: the history used to
   answer a query of a conversation holds messages of that conversation
   only, and clear_conversation removes messages of the conversation it is
   called for only. *)
C30_ConversationsIsolated ==
    \A i \in DOMAIN memory.last.touched :
        memory.last.touched[i].conversation = memory.last.conversation

====
